---- MODULE Spec2Model ----
(***************************************************************************)
(* KUDataFlowApp: merge of two election rounds (13 and 23) into one wide   *)
(* record per municipality, by three topologies (pattern 1, 2, 3), in an   *)
(* in-memory variant and a persistence-backed variant.                     *)
(*                                                                         *)
(* Ratios (turnout, relative share) are held as integers in units of       *)
(* 10^-Decimals: the value k stands for the number k / Factor.             *)
(***************************************************************************)
EXTENDS Integers, Sequences, FiniteSets, TLC

VARIABLES
    csv13,      \* records of the round-13 CSV file, one per (municipality, party) line
    csv23,      \* records of the round-23 CSV file
    out,        \* out[p]: TransformResult of in-memory pattern p, or NotRun
    municipality,       \* table Municipality, in insertion order; a row's id is its index
    rawElectionData,    \* table RawElectionData, in insertion order
    electionResult,     \* table ElectionResult, in insertion order
    mergeRun,           \* table MergeRun, in insertion order
    run,        \* run[r]: the locals of persistence-backed run r and the await it is at
    call,       \* a call of a function of common.ts: its arguments and, once made, its result
    clock,      \* performance.now()
    heap,       \* the StorageMetrics objects allocated so far; an object's address is its index
    timer,      \* the fields of a DetailedTimer
    snap,       \* address of the object a caller got from getStorageMetrics(), 0 before
    trace,      \* the calls made on the DetailedTimer so far
    page        \* the page in the browser: the state of Home and of its three PatternButtons

tables == <<municipality, rawElectionData, electionResult, mergeRun>>

appVars == <<csv13, csv23, out, municipality, rawElectionData, electionResult, mergeRun, run,
            page>>

libVars == <<call, clock, heap, timer, snap, trace>>

vars == <<csv13, csv23, out, municipality, rawElectionData, electionResult, mergeRun, run,
          call, clock, heap, timer, snap, trace, page>>

-----------------------------------------------------------------------------
(* Bounds of the model *)

\* total number of CSV records in the two generated input files
MaxRecs == 3

(* Program constants *)

\* default of round()'s decimals parameter, and the argument of every call
Decimals == 4

Elections == <<13, 23>>

NotRun == [status |-> "notRun"]

-----------------------------------------------------------------------------
(* Generic helpers *)

Range(s) == {s[i] : i \in 1..Len(s)}

Max(S) == CHOOSE x \in S : \A y \in S : y <= x

Min(S) == CHOOSE x \in S : \A y \in S : x <= y

RECURSIVE Pow(_, _)
Pow(b, e) == IF e = 0 THEN 1 ELSE b * Pow(b, e - 1)

RECURSIVE SumSeq(_)
SumSeq(s) == IF s = <<>> THEN 0 ELSE Head(s) + SumSeq(Tail(s))

\* a JavaScript object used as a dictionary: a function on the keys that are set
EmptyObj == [k \in {} |-> 0]

Put(obj, k, v) == [x \in (DOMAIN obj) \cup {k} |-> IF x = k THEN v ELSE obj[x]]

\* obj[k] || 1: a key the object lacks read as one vote
GetOr1(obj, k) == IF k \in DOMAIN obj THEN obj[k] ELSE 1

\* obj[k] || 0
GetOr0(obj, k) == IF k \in DOMAIN obj THEN obj[k] ELSE 0

\* the order String.prototype.localeCompare-free Array.sort() gives the party names of the model
PartyOrder == <<"P", "Q", "R", "X", "Y", "Z">>

SortNames(S) == SelectSeq(PartyOrder, LAMBDA p : p \in S)

-----------------------------------------------------------------------------
(* common.ts: arithmetic primitives *)

Factor == Pow(10, Decimals)

\* The pairs <<n, d>> with d <= 1000 and n <= 2 * d for which the IEEE-754 double
\* product (n / d) * Factor lies just below k + 0.5 although n / d * Factor is
\* exactly k + 0.5, so that Math.round yields k instead of k + 1.
DoubleBelowHalf ==
    {<<n, 800>> : n \in {57, 69, 113, 139, 163, 201, 203, 251, 253, 301, 303,
                         427, 431, 477, 481, 527, 531, 577, 581, 627, 631,
                         829, 837, 879, 887, 929, 937, 979, 987, 1029, 1037,
                         1079, 1087, 1129, 1137, 1179, 1187, 1229, 1237, 1279,
                         1287}}

\* round(n / d, Decimals), in units of 1 / Factor; d > 0
Round(n, d) ==
    LET halfUp == (2 * Factor * n + d) \div (2 * d)
    IN  IF <<n, d>> \in DoubleBelowHalf THEN halfUp - 1 ELSE halfUp

\* computeTurnout without its zero-guard: ballots / 0 is Infinity in JavaScript,
\* held here as a ratio above every ratio of the model
computeTurnoutNoGuard(ballots, electorate) ==
    IF electorate = 0 THEN Factor * Factor ELSE Round(ballots, electorate)

computeTurnout(ballots, electorate) ==
    IF electorate = 0 THEN 0 ELSE Round(ballots, electorate)

\* number of console.warn calls of computeTurnout(ballots, electorate)
computeTurnoutWarns(ballots, electorate) == IF electorate = 0 THEN 1 ELSE 0

computeRelativeShare(votes, validVotes) ==
    IF validVotes = 0 THEN 0 ELSE Round(votes, validVotes)

\* number of console.warn calls of computeRelativeShare(votes, validVotes)
computeRelativeShareWarns(votes, validVotes) == IF validVotes = 0 THEN 1 ELSE 0

makePartyColumn(party, electionNo) == party \o "_" \o ToString(electionNo)

normalizeRow(raw, electionNo) ==
    [k \in (DOMAIN raw) \cup {"electionNo"} |->
        IF k = "electionNo" THEN electionNo ELSE raw[k]]

-----------------------------------------------------------------------------
(* The merger callbacks the topologies hand to joinByJisCode *)

\* Object.entries(partyShares).forEach(([party, share]) => base[makePartyColumn(party, no)] = share)
shareColumns(partyShares, electionNo) ==
    LET cols == {makePartyColumn(p, electionNo) : p \in DOMAIN partyShares}
    IN  [c \in cols |->
            partyShares[CHOOSE p \in DOMAIN partyShares : makePartyColumn(p, electionNo) = c]]

\* the merger of the final join of patterns 1 and 3
mergeRounds(row13, row23) ==
    shareColumns(row23.partyShares, 23) @@ shareColumns(row13.partyShares, 13) @@
    [pref_code  |-> row13.prefCode,
     pref_name  |-> row13.prefName,
     jis_code   |-> row13.jisCode,
     city_name  |-> row13.cityName,
     turnout_13 |-> row13.turnout,
     turnout_23 |-> row23.turnout]

\* the merger of pattern 3's join of a Base table with a Party table
mergeBaseAndParty(b, p) ==
    [jisCode     |-> b.jisCode,
     prefCode    |-> b.prefCode,
     prefName    |-> b.prefName,
     cityName    |-> b.cityName,
     turnout     |-> b.turnout,
     partyShares |-> p.partyShares]

\* merger(l, r), the callback being named by merger
callMerger(merger, l, r) ==
    IF merger = "mergeRounds" THEN mergeRounds(l, r) ELSE mergeBaseAndParty(l, r)

-----------------------------------------------------------------------------
(* common.ts: relational primitives *)

\* rightMap.get(key) after right.forEach(row => rightMap.set(row.jisCode, row))
RightIndex(right, key) == {i \in 1..Len(right) : right[i].jisCode = key}

\* joinByJisCode as a left join: a left row without a match is merged with the
\* last right row instead of being dropped
joinByJisCodeKeepLeft(left, right, merger) ==
    LET hits == SelectSeq(left, LAMBDA l : right # <<>>)
    IN  [i \in 1..Len(hits) |->
            callMerger(merger, hits[i],
                   IF RightIndex(right, hits[i].jisCode) # {}
                   THEN right[Max(RightIndex(right, hits[i].jisCode))]
                   ELSE right[Len(right)])]

\* joinByJisCode with the result built in the order of the right array's keys
joinByJisCodeRightOrder(left, right, merger) ==
    LET hits == SelectSeq(left, LAMBDA l : RightIndex(right, l.jisCode) # {})
        last(l) == Max(RightIndex(right, l.jisCode))
        before(i) == {j \in 1..Len(hits) :
                         \/ last(hits[j]) < last(hits[i])
                         \/ last(hits[j]) = last(hits[i]) /\ j < i}
        at(n) == CHOOSE i \in 1..Len(hits) : Cardinality(before(i)) = n - 1
    IN  [n \in 1..Len(hits) |->
            callMerger(merger, hits[at(n)], right[last(hits[at(n)])])]

\* joinByJisCode with a rightMap that keeps the first row of a key
joinByJisCodeFirstRight(left, right, merger) ==
    LET hits == SelectSeq(left, LAMBDA l : RightIndex(right, l.jisCode) # {})
    IN  [i \in 1..Len(hits) |->
            callMerger(merger, hits[i], right[Min(RightIndex(right, hits[i].jisCode))])]

joinByJisCode(left, right, merger) ==
    LET hits == SelectSeq(left, LAMBDA l : RightIndex(right, l.jisCode) # {})
    IN  [i \in 1..Len(hits) |->
            callMerger(merger, hits[i], right[Max(RightIndex(right, hits[i].jisCode))])]

\* groupBy: the Map as the sequence of its entries [key, items], in insertion order
\* keyFn is the name of the field the callers' key functions return
RECURSIVE groupByUpTo(_, _, _)
groupByUpTo(array, keyFn, n) ==
    IF n = 0 THEN <<>>
    ELSE LET map  == groupByUpTo(array, keyFn, n - 1)
             item == array[n]
             key  == item[keyFn]
             at   == {j \in 1..Len(map) : map[j].key = key}
         IN  IF at = {}
             THEN Append(map, [key |-> key, items |-> <<item>>])
             ELSE [map EXCEPT ![Min(at)].items = Append(@, item)]

\* groupBy over the array read from its end
groupByFromEnd(array, keyFn) ==
    LET rev == [i \in 1..Len(array) |-> array[Len(array) + 1 - i]]
    IN  groupByUpTo(rev, keyFn, Len(rev))

groupBy(array, keyFn) == groupByUpTo(array, keyFn, Len(array))

\* undefined
None == [status |-> "undefined"]

-----------------------------------------------------------------------------
(* csv/loader.ts *)

\* jisCode.startsWith("uh"), over the codes of the model
StartsWithUh(jisCode) == jisCode \in {"uh"}

\* the loader without its grouping by JIS code: one row per CSV line
RECURSIVE loadRowsUngrouped(_, _)
loadRowsUngrouped(rawRecords, n) ==
    IF n = 0 THEN <<>>
    ELSE LET record == rawRecords[n]
         IN  IF record.jisCode = "" \/ record.party = "" \/ StartsWithUh(record.jisCode)
             THEN loadRowsUngrouped(rawRecords, n - 1)
             ELSE Append(loadRowsUngrouped(rawRecords, n - 1),
                         [prefCode   |-> record.prefCode,
                          prefName   |-> record.prefName,
                          jisCode    |-> record.jisCode,
                          cityName   |-> record.cityName,
                          electorate |-> record.electorate,
                          ballots    |-> record.ballots,
                          validVotes |-> record.validVotes,
                          parties    |-> Put(EmptyObj, record.party, record.votes)])

RECURSIVE loadRowsUpTo(_, _)
loadRowsUpTo(rawRecords, n) ==
    IF n = 0 THEN <<>>
    ELSE LET grouped == loadRowsUpTo(rawRecords, n - 1)
             record  == rawRecords[n]
             at      == {j \in 1..Len(grouped) : grouped[j].jisCode = record.jisCode}
         IN  IF record.jisCode = "" \/ record.party = "" \/ StartsWithUh(record.jisCode)
             THEN grouped
             ELSE IF at = {}
             THEN Append(grouped,
                         [prefCode   |-> record.prefCode,
                          prefName   |-> record.prefName,
                          jisCode    |-> record.jisCode,
                          cityName   |-> record.cityName,
                          electorate |-> record.electorate,
                          ballots    |-> record.ballots,
                          validVotes |-> record.validVotes,
                          parties    |-> Put(EmptyObj, record.party, record.votes)])
             ELSE [grouped EXCEPT ![Min(at)].parties =
                       Put(@, record.party, GetOr0(@, record.party) + record.votes)]

loadPartySet(rawRecords) ==
    {rawRecords[i].party : i \in {j \in 1..Len(rawRecords) :
        ~(rawRecords[j].jisCode = "" \/ rawRecords[j].party = ""
          \/ StartsWithUh(rawRecords[j].jisCode))}}

loadElectionCsv(rawRecords) ==
    [rows       |-> loadRowsUpTo(rawRecords, Len(rawRecords)),
     partyNames |-> SortNames(loadPartySet(rawRecords))]

-----------------------------------------------------------------------------
(* Shared by the three in-memory patterns *)

FixedColumns == <<"pref_code", "pref_name", "jis_code", "city_name",
                  "turnout_13", "turnout_23">>

\* Array.from(new Set([...partyNames13, ...partyNames23]))
allParties(partyNames13, partyNames23) ==
    partyNames13 \o SelectSeq(partyNames23, LAMBDA p : p \notin Range(partyNames13))

RECURSIVE flatMapColumns(_)
flatMapColumns(parties) ==
    IF parties = <<>> THEN <<>>
    ELSE <<makePartyColumn(Head(parties), 13), makePartyColumn(Head(parties), 23)>>
         \o flatMapColumns(Tail(parties))

makeHeader(partyNames13, partyNames23) ==
    FixedColumns \o flatMapColumns(allParties(partyNames13, partyNames23))

\* warnings logged while the shares of the parties in names are computed for row
shareWarns(row, names) ==
    Cardinality(names) * computeRelativeShareWarns(0, row.validVotes)

-----------------------------------------------------------------------------
(* transform/pattern1.ts *)

processElection(rows, electionNo, partyNames) ==
    [i \in 1..Len(rows) |->
        [prefCode    |-> rows[i].prefCode,
         prefName    |-> rows[i].prefName,
         jisCode     |-> rows[i].jisCode,
         cityName    |-> rows[i].cityName,
         turnout     |-> computeTurnout(rows[i].ballots, rows[i].electorate),
         partyShares |-> [p \in Range(partyNames) |->
                            computeRelativeShare(GetOr0(rows[i].parties, p),
                                                 rows[i].validVotes)]]]

processElectionWarns(rows, partyNames) ==
    SumSeq([i \in 1..Len(rows) |->
        computeTurnoutWarns(rows[i].ballots, rows[i].electorate)
        + shareWarns(rows[i], Range(partyNames))])

transformPattern1(records13, records23) ==
    LET data13      == loadElectionCsv(records13)
        processed13 == processElection(data13.rows, 13, data13.partyNames)
        data23      == loadElectionCsv(records23)
        processed23 == processElection(data23.rows, 23, data23.partyNames)
    IN  [status |-> "returned",
         rows   |-> joinByJisCode(processed13, processed23, "mergeRounds"),
         header |-> makeHeader(data13.partyNames, data23.partyNames),
         warns  |-> processElectionWarns(data13.rows, data13.partyNames)
                    + processElectionWarns(data23.rows, data23.partyNames)]

-----------------------------------------------------------------------------
(* transform/pattern2.ts *)

normalizeRows(rows, electionNo) ==
    [i \in 1..Len(rows) |-> normalizeRow(rows[i], electionNo)]

computeUnion(unionAll) ==
    [i \in 1..Len(unionAll) |->
        [k \in (DOMAIN unionAll[i]) \cup {"turnout", "partyShares"} |->
            IF k = "turnout"
            THEN computeTurnout(unionAll[i].ballots, unionAll[i].electorate)
            ELSE IF k = "partyShares"
            THEN [p \in DOMAIN unionAll[i].parties |->
                     computeRelativeShare(unionAll[i].parties[p], unionAll[i].validVotes)]
            ELSE unionAll[i][k]]]

computeUnionWarns(unionAll) ==
    SumSeq([i \in 1..Len(unionAll) |->
        computeTurnoutWarns(unionAll[i].ballots, unionAll[i].electorate)
        + shareWarns(unionAll[i], DOMAIN unionAll[i].parties)])

\* group.find((r) => r.electionNo === electionNo)
findElection(group, electionNo) ==
    LET hit == SelectSeq(group, LAMBDA r : r.electionNo = electionNo)
    IN  IF hit = <<>> THEN None ELSE Head(hit)

\* base[makePartyColumn(party, 13)] = row13.partyShares[party] || 0, and the same for 23
pivotColumns(row13, row23, parties) ==
    LET cols == {makePartyColumn(p, e) : p \in Range(parties), e \in {13, 23}}
    IN  [c \in cols |->
            LET p == CHOOSE q \in Range(parties) :
                         c \in {makePartyColumn(q, 13), makePartyColumn(q, 23)}
            IN  IF c = makePartyColumn(p, 13)
                THEN GetOr0(row13.partyShares, p)
                ELSE GetOr0(row23.partyShares, p)]

pivotGroup(jisCode, row13, row23, parties) ==
    pivotColumns(row13, row23, parties) @@
    [pref_code  |-> row13.prefCode,
     pref_name  |-> row13.prefName,
     jis_code   |-> jisCode,
     city_name  |-> row13.cityName,
     turnout_13 |-> row13.turnout,
     turnout_23 |-> row23.turnout]

pivot(grouped, parties) ==
    LET both == SelectSeq(grouped, LAMBDA g :
                    findElection(g.items, 13) # None /\ findElection(g.items, 23) # None)
    IN  [i \in 1..Len(both) |->
            pivotGroup(both[i].key, findElection(both[i].items, 13),
                       findElection(both[i].items, 23), parties)]

transformPattern2(records13, records23) ==
    LET data13   == loadElectionCsv(records13)
        data23   == loadElectionCsv(records23)
        unionAll == normalizeRows(data13.rows, 13) \o normalizeRows(data23.rows, 23)
        computed == computeUnion(unionAll)
        grouped  == groupBy(computed, "jisCode")
    IN  [status |-> "returned",
         rows   |-> pivot(grouped, allParties(data13.partyNames, data23.partyNames)),
         header |-> makeHeader(data13.partyNames, data23.partyNames),
         warns  |-> computeUnionWarns(unionAll)]

-----------------------------------------------------------------------------
(* transform/pattern3.ts *)

createBaseTable(rows, electionNo) ==
    [i \in 1..Len(rows) |->
        [jisCode  |-> rows[i].jisCode,
         prefCode |-> rows[i].prefCode,
         prefName |-> rows[i].prefName,
         cityName |-> rows[i].cityName,
         turnout  |-> computeTurnout(rows[i].ballots, rows[i].electorate)]]

createPartyTable(rows, electionNo, partyNames) ==
    [i \in 1..Len(rows) |->
        [jisCode     |-> rows[i].jisCode,
         partyShares |-> [p \in Range(partyNames) |->
                            computeRelativeShare(GetOr0(rows[i].parties, p),
                                                 rows[i].validVotes)]]]

joinBaseAndParty(base, party, electionNo) ==
    joinByJisCode(base, party, "mergeBaseAndParty")

transformPattern3(records13, records23) ==
    LET data13         == loadElectionCsv(records13)
        data23         == loadElectionCsv(records23)
        base13         == createBaseTable(data13.rows, 13)
        party13        == createPartyTable(data13.rows, 13, data13.partyNames)
        intermediate13 == joinBaseAndParty(base13, party13, 13)
        base23         == createBaseTable(data23.rows, 23)
        party23        == createPartyTable(data23.rows, 23, data23.partyNames)
        intermediate23 == joinBaseAndParty(base23, party23, 23)
    IN  [status |-> "returned",
         rows   |-> joinByJisCode(intermediate13, intermediate23, "mergeRounds"),
         header |-> makeHeader(data13.partyNames, data23.partyNames),
         warns  |-> processElectionWarns(data13.rows, data13.partyNames)
                    + processElectionWarns(data23.rows, data23.partyNames)]

-----------------------------------------------------------------------------
(* Number formatting of the two CSV emitters *)

\* the last n decimal digits of frac, as text
RECURSIVE FracDigits(_, _)
FracDigits(frac, n) ==
    IF n = 0 THEN "" ELSE FracDigits(frac \div 10, n - 1) \o ToString(frac % 10)

\* frac as n decimal digits without trailing zeros; frac # 0
RECURSIVE FracDigitsTrimmed(_, _)
FracDigitsTrimmed(frac, n) ==
    IF frac % 10 = 0 THEN FracDigitsTrimmed(frac \div 10, n - 1) ELSE FracDigits(frac, n)

\* Number.prototype.toFixed(4) of the ratio k / Factor
toFixed(k) ==
    ToString(k \div Factor) \o "." \o FracDigits(k % Factor, Decimals)

\* Number.prototype.toString() of the ratio k / Factor
numberToString(k) ==
    IF k % Factor = 0 THEN ToString(k \div Factor)
    ELSE ToString(k \div Factor) \o "." \o FracDigitsTrimmed(k % Factor, Decimals)

-----------------------------------------------------------------------------
(* output/writer.ts: the CSV emitted on the in-memory path, as rows of cell texts *)

\* the columns whose values are strings; every other column holds a number
StringColumns == {"pref_code", "pref_name", "jis_code", "city_name"}

NumericColumn(header, c) == header[c] \notin StringColumns

\* generateCsv after writeCsv's ordering: a column the row lacks becomes "",
\* a number is written by toString(), a string as it is
writeCsvCell(row, header, c) ==
    IF header[c] \notin DOMAIN row THEN ""
    ELSE IF NumericColumn(header, c) THEN numberToString(row[header[c]])
    ELSE row[header[c]]

writeCsv(header, rows) ==
    [header |-> header,
     lines  |-> [i \in 1..Len(rows) |->
                    [c \in 1..Len(header) |-> writeCsvCell(rows[i], header, c)]]]

-----------------------------------------------------------------------------
(* transform/pattern1-db.ts and pattern2-db.ts: operations on the tables *)

\* Object.entries(obj): the keys are visited in the order of their names; the
\* tables and rows the runs end with are the same for every order of visit
Entries(obj) == SortNames(DOMAIN obj)

\* the order of the JIS codes of the model under orderBy jisCode asc
JisOrder == <<"001", "A", "B", "C">>

MunicipalityIds(tbl, jisCode) == {i \in 1..Len(tbl) : tbl[i].jisCode = jisCode}

\* prisma.municipality.upsert({where: {jisCode}, update: {...}, create: {...}})
upsertMunicipality(tbl, row) ==
    LET rec == [jisCode  |-> row.jisCode,
                prefCode |-> row.prefCode,
                prefName |-> row.prefName,
                cityName |-> row.cityName]
    IN  IF MunicipalityIds(tbl, row.jisCode) = {}
        THEN Append(tbl, rec)
        ELSE [tbl EXCEPT ![Min(MunicipalityIds(tbl, row.jisCode))] = rec]

\* prisma.rawElectionData.deleteMany({where: {electionNo}})
\* a deleteMany that removes no row
deleteRawDataNone(tbl, electionNo) == tbl

deleteRawData(tbl, electionNo) == SelectSeq(tbl, LAMBDA r : r.electionNo # electionNo)

rawDataRecord(municipalityId, electionNo, row, party) ==
    [municipalityId |-> municipalityId,
     electionNo     |-> electionNo,
     party          |-> party,
     votes          |-> row.parties[party],
     electorate     |-> row.electorate,
     ballots        |-> row.ballots,
     validVotes     |-> row.validVotes]

\* the grouping loop of loadRawDataFromDB over the records found
RECURSIVE groupRawData(_, _, _, _)
groupRawData(rawData, munis, electionNo, n) ==
    IF n = 0 THEN <<>>
    ELSE LET grouped == groupRawData(rawData, munis, electionNo, n - 1)
             record  == rawData[n]
             muni    == munis[record.municipalityId]
             at      == {g \in 1..Len(grouped) : grouped[g].jisCode = muni.jisCode}
             entry   == [jisCode      |-> muni.jisCode,
                         electionNo   |-> electionNo,
                         municipality |-> muni,
                         electorate   |-> record.electorate,
                         ballots      |-> record.ballots,
                         validVotes   |-> record.validVotes,
                         parties      |-> EmptyObj]
             all     == IF at = {} THEN Append(grouped, entry) ELSE grouped
             g       == IF at = {} THEN Len(all) ELSE Min(at)
         IN  [all EXCEPT ![g].parties = Put(@, record.party, record.votes)]

\* loadRawDataFromDB: findMany({where: {electionNo}, include: {municipality: true}})
\* returns the records in insertion order; the records of one district carry the
\* same tallies, so the grouped rows are the same for every order
loadRawDataFromDB(rawTbl, munis, electionNo) ==
    LET rawData == SelectSeq(rawTbl, LAMBDA r : r.electionNo = electionNo)
    IN  groupRawData(rawData, munis, electionNo, Len(rawData))

\* a result row whose turnout is written as 0, like its electorate and ballots
resultRecordZeroTurnout(municipalityId, electionNo, turnout, party, relativeShare) ==
    [municipalityId |-> municipalityId,
     electionNo     |-> electionNo,
     electorate     |-> 0,
     ballots        |-> 0,
     validVotes     |-> 0,
     turnout        |-> 0,
     party          |-> party,
     votes          |-> 0,
     relativeShare  |-> relativeShare]

resultRecord(municipalityId, electionNo, turnout, party, relativeShare) ==
    [municipalityId |-> municipalityId,
     electionNo     |-> electionNo,
     electorate     |-> 0,
     ballots        |-> 0,
     validVotes     |-> 0,
     turnout        |-> turnout,
     party          |-> party,
     votes          |-> 0,
     relativeShare  |-> relativeShare]

\* position of x in the sequence order
RankIn(order, x) == Min({i \in 1..Len(order) : order[i] = x})

\* orderBy [{municipality: {jisCode: "asc"}}, {electionNo: "asc"}, {party: "asc"}];
\* records equal in the three keys stay in insertion order
ResultBefore(munis, a, b) ==
    LET ja == RankIn(JisOrder, munis[a.municipalityId].jisCode)
        jb == RankIn(JisOrder, munis[b.municipalityId].jisCode)
        pa == RankIn(PartyOrder, a.party)
        pb == RankIn(PartyOrder, b.party)
    IN  \/ ja < jb
        \/ ja = jb /\ a.electionNo < b.electionNo
        \/ ja = jb /\ a.electionNo = b.electionNo /\ pa < pb

RECURSIVE sortResults(_, _, _)
sortResults(tbl, munis, n) ==
    IF n = 0 THEN <<>>
    ELSE LET sorted == sortResults(tbl, munis, n - 1)
             before == SelectSeq(sorted, LAMBDA r : ~ResultBefore(munis, tbl[n], r))
             after  == SelectSeq(sorted, LAMBDA r : ResultBefore(munis, tbl[n], r))
         IN  before \o <<tbl[n]>> \o after

\* the grouping loop of loadResultsFromDB over the records found
RECURSIVE groupResults(_, _, _)
groupResults(results, munis, n) ==
    IF n = 0 THEN <<>>
    ELSE LET grouped == groupResults(results, munis, n - 1)
             record  == results[n]
             muni    == munis[record.municipalityId]
             at      == {g \in 1..Len(grouped) : grouped[g].jisCode = muni.jisCode}
             entry   == [jisCode       |-> muni.jisCode,
                         prefCode      |-> muni.prefCode,
                         prefName      |-> muni.prefName,
                         cityName      |-> muni.cityName,
                         turnout13     |-> 0,
                         turnout23     |-> 0,
                         partyShares13 |-> EmptyObj,
                         partyShares23 |-> EmptyObj]
             all     == IF at = {} THEN Append(grouped, entry) ELSE grouped
             g       == IF at = {} THEN Len(all) ELSE Min(at)
         IN  IF record.electionNo = 13
             THEN [all EXCEPT ![g].turnout13 = record.turnout,
                              ![g].partyShares13 =
                                  Put(@, record.party, record.relativeShare)]
             ELSE IF record.electionNo = 23
             THEN [all EXCEPT ![g].turnout23 = record.turnout,
                              ![g].partyShares23 =
                                  Put(@, record.party, record.relativeShare)]
             ELSE all

loadResultsFromDB(resultTbl, munis) ==
    groupResults(sortResults(resultTbl, munis, Len(resultTbl)), munis, Len(resultTbl))

-----------------------------------------------------------------------------
(* pattern1-db.ts and pattern2-db.ts: step 4, the computation in memory *)

\* the per-row computation of processElectionData (pattern 1) and of computed
\* (pattern 2); pattern 1 drops electionNo, which joinResults never reads
computeRawRow(data) ==
    [jisCode     |-> data.jisCode,
     electionNo  |-> data.electionNo,
     prefCode    |-> data.municipality.prefCode,
     prefName    |-> data.municipality.prefName,
     cityName    |-> data.municipality.cityName,
     turnout     |-> computeTurnout(data.ballots, data.electorate),
     partyShares |-> [p \in DOMAIN data.parties |->
                        computeRelativeShare(data.parties[p], data.validVotes)]]

processElectionData(rawData) ==
    [i \in 1..Len(rawData) |-> computeRawRow(rawData[i])]

joinedRecord(jisCode, d13, d23) ==
    [jisCode       |-> jisCode,
     prefCode      |-> d13.prefCode,
     prefName      |-> d13.prefName,
     cityName      |-> d13.cityName,
     turnout13     |-> d13.turnout,
     turnout23     |-> d23.turnout,
     partyShares13 |-> d13.partyShares,
     partyShares23 |-> d23.partyShares]

\* new Map(data.map((d) => [d.jisCode, d])).get(jisCode): the last element of the code
LastOfKey(data, jisCode) ==
    data[Max({i \in 1..Len(data) : data[i].jisCode = jisCode})]

\* the keys of new Map(data.map((d) => [d.jisCode, d])), in insertion order
RECURSIVE mapKeys(_, _)
mapKeys(data, n) ==
    IF n = 0 THEN <<>>
    ELSE LET keys == mapKeys(data, n - 1)
         IN  IF data[n].jisCode \in Range(keys) THEN keys ELSE Append(keys, data[n].jisCode)

\* pattern 1
joinResults(data13, data23) ==
    LET keys == SelectSeq(mapKeys(data13, Len(data13)),
                          LAMBDA k : \E i \in 1..Len(data23) : data23[i].jisCode = k)
    IN  [i \in 1..Len(keys) |->
            joinedRecord(keys[i], LastOfKey(data13, keys[i]), LastOfKey(data23, keys[i]))]

\* pattern 2
pivotData(computed) ==
    LET grouped == groupBy(computed, "jisCode")
        both    == SelectSeq(grouped, LAMBDA g :
                       findElection(g.items, 13) # None /\ findElection(g.items, 23) # None)
    IN  [i \in 1..Len(both) |->
            joinedRecord(both[i].key, findElection(both[i].items, 13),
                         findElection(both[i].items, 23))]

\* pattern 3: createBaseTable(rawData, electionNo)
baseTableOfRaw(rawData) ==
    [i \in 1..Len(rawData) |->
        [jisCode  |-> rawData[i].jisCode,
         prefCode |-> rawData[i].municipality.prefCode,
         prefName |-> rawData[i].municipality.prefName,
         cityName |-> rawData[i].municipality.cityName,
         turnout  |-> computeTurnout(rawData[i].ballots, rawData[i].electorate)]]

\* pattern 3: createPartyTable(rawData, electionNo)
partyTableOfRaw(rawData) ==
    [i \in 1..Len(rawData) |->
        [jisCode     |-> rawData[i].jisCode,
         partyShares |-> [p \in DOMAIN rawData[i].parties |->
                            computeRelativeShare(rawData[i].parties[p],
                                                 rawData[i].validVotes)]]]

\* pattern 3: joinBaseAndParty(base, party, electionNo), with
\* partyMap = new Map(party.map((p) => [p.jisCode, p]))
intermediateOfRaw(base, party) ==
    LET hits == SelectSeq(base, LAMBDA b : \E i \in 1..Len(party) : party[i].jisCode = b.jisCode)
    IN  [i \in 1..Len(hits) |->
            mergeBaseAndParty(hits[i], LastOfKey(party, hits[i].jisCode))]

\* pattern 3: joinIntermediate(intermediate13, intermediate23), over the entries of map13
joinIntermediate(intermediate13, intermediate23) ==
    joinResults(intermediate13, intermediate23)

intermediateTable(rawData) ==
    intermediateOfRaw(baseTableOfRaw(rawData), partyTableOfRaw(rawData))

computeStep(pattern, rawData13, rawData23) ==
    CASE pattern = 1 ->
            joinResults(processElectionData(rawData13), processElectionData(rawData23))
      [] pattern = 2 ->
            pivotData(processElectionData(rawData13 \o rawData23))
      [] pattern = 3 ->
            joinIntermediate(intermediateTable(rawData13), intermediateTable(rawData23))

\* convertToCSV, as the header and the rows of cell texts
convertToCSVCells(result, parties) ==
    <<result.prefCode, result.prefName, result.jisCode, result.cityName,
      toFixed(result.turnout13), toFixed(result.turnout23)>>
    \o [c \in 1..(2 * Len(parties)) |->
            IF c % 2 = 1
            THEN toFixed(GetOr0(result.partyShares13, parties[(c + 1) \div 2]))
            ELSE toFixed(GetOr0(result.partyShares23, parties[c \div 2]))]

convertToCSV(results, parties13, parties23) ==
    [header |-> makeHeader(parties13, parties23),
     lines  |-> [i \in 1..Len(results) |->
                    convertToCSVCells(results[i], allParties(parties13, parties23))]]

-----------------------------------------------------------------------------
(* The batch variant of pattern2-db.ts: saveRawDataToDBBatch *)

\* uniqueJisCodes: the first row seen of every JIS code over [...rows13, ...rows23]
RECURSIVE uniqueJisCodes(_, _)
uniqueJisCodes(rows, n) ==
    IF n = 0 THEN <<>>
    ELSE LET unique == uniqueJisCodes(rows, n - 1)
         IN  IF \E u \in 1..Len(unique) : unique[u].jisCode = rows[n].jisCode
             THEN unique ELSE Append(unique, rows[n])

RECURSIVE upsertAll(_, _, _)
upsertAll(tbl, rows, n) ==
    IF n = 0 THEN tbl ELSE upsertMunicipality(upsertAll(tbl, rows, n - 1), rows[n])

\* the municipality table saveRawDataToDBBatch leaves, started on the table tbl
batchMunicipalities(tbl, rows13, rows23) ==
    LET unique == uniqueJisCodes(rows13 \o rows23, Len(rows13) + Len(rows23))
    IN  upsertAll(tbl, unique, Len(unique))

-----------------------------------------------------------------------------
(* metrics/detailedTracker.ts: class DetailedTimer.
   An operation takes tm = [timer, heap], the fields of the timer and the
   StorageMetrics objects allocated so far, and gives them back as the method
   leaves them.  timer.storage is the address of the object this.storage
   refers to.  Times are whole milliseconds; peakMemoryMB is held in
   hundredths of a MB. *)

StorageFields ==
    {"rawDataRows", "resultDataRows", "intermediateRows", "dbWriteOps", "dbReadOps",
     "peakMemoryMB"}

\* 1024 * 1024
BytesPerMB == 1024 * 1024

\* Math.round((bytes / (1024 * 1024)) * 100), the hundredths of a MB of bytes
roundMB(bytes) == (2 * 100 * bytes + BytesPerMB) \div (2 * BytesPerMB)

\* the field initialisers and the constructor, run at time now
newDetailedTimer(now) ==
    [timer |-> [status           |-> "constructed",
                stepTimes        |-> EmptyObj,
                currentStepStart |-> 0,
                overallStart     |-> now,
                storage          |-> 1],
     heap  |-> <<[f \in StorageFields |-> 0]>>]

startStep(tm, now) == [tm EXCEPT !.timer.currentStepStart = now]

endStep(tm, now, stepName) ==
    [tm EXCEPT !.timer.stepTimes = Put(@, stepName, now - tm.timer.currentStepStart)]

\* this.storage = {...this.storage, ...metrics}: a new object
recordStorage(tm, metrics) ==
    LET old == tm.heap[tm.timer.storage]
    IN  [timer |-> [tm.timer EXCEPT !.storage = Len(tm.heap) + 1],
         heap  |-> Append(tm.heap,
                          [f \in StorageFields |->
                              IF f \in DOMAIN metrics THEN metrics[f] ELSE old[f]])]

\* incrementReadOps that stores the count instead of adding it
incrementReadOpsAssigning(tm, count) ==
    [tm EXCEPT !.heap[tm.timer.storage].dbReadOps = count]

incrementWriteOps(tm, count) ==
    [tm EXCEPT !.heap[tm.timer.storage].dbWriteOps = @ + count]

incrementReadOps(tm, count) ==
    [tm EXCEPT !.heap[tm.timer.storage].dbReadOps = @ + count]

recordIntermediateRows(tm, count) ==
    [tm EXCEPT !.heap[tm.timer.storage].intermediateRows = @ + count]

\* mb > this.storage.peakMemoryMB compares the unrounded mb
recordMemoryUsage(tm, arrayLength, estimatedBytesPerRow) ==
    LET bytes == arrayLength * estimatedBytesPerRow
        peak  == tm.heap[tm.timer.storage].peakMemoryMB
    IN  IF 100 * bytes > peak * BytesPerMB
        THEN [tm EXCEPT !.heap[tm.timer.storage].peakMemoryMB = roundMB(bytes)]
        ELSE tm

\* recordProcessMemory that stores the resident size whether or not it is a new peak
recordProcessMemoryLast(tm, rss) ==
    [tm EXCEPT !.heap[tm.timer.storage].peakMemoryMB = roundMB(rss)]

\* rss is process.memoryUsage().rss
recordProcessMemory(tm, rss) ==
    IF roundMB(rss) > tm.heap[tm.timer.storage].peakMemoryMB
    THEN [tm EXCEPT !.heap[tm.timer.storage].peakMemoryMB = roundMB(rss)]
    ELSE tm

StepNames ==
    {"csvLoadMs", "dbWriteRawMs", "dbReadRawMs", "computeMs", "dbWriteResultMs",
     "dbReadResultMs", "csvWriteMs"}

getTimings(tm, now) ==
    [n \in StepNames \cup {"totalMs"} |->
        IF n = "totalMs" THEN now - tm.timer.overallStart
        ELSE GetOr0(tm.timer.stepTimes, n)]

\* getStorageMetrics that hands out this.storage itself
getStorageMetricsAliased(tm) ==
    [tm |-> tm, result |-> tm.timer.storage]

\* return {...this.storage}: a new object; result is its address
getStorageMetrics(tm) ==
    [tm     |-> [tm EXCEPT !.heap = Append(@, tm.heap[tm.timer.storage])],
     result |-> Len(tm.heap) + 1]

-----------------------------------------------------------------------------
(* runPattern1DB, runPattern2DB and runPattern3DB, one step per await on the persistence layer.
   A step takes the tables and the locals of the run, w = [municipality,
   rawElectionData, electionResult, mergeRun, l], and gives them back as the
   code leaves them at its next await. *)

\* the two concurrent requests
Runs == {1, 2}

\* a request that has not arrived
Idle == [pc |-> "idle"]

rowsOf(l) == IF l.e = 13 THEN l.data13.rows ELSE l.data23.rows

\* the calls of the run on its DetailedTimer; performance.now() and the memory
\* readings (process.memoryUsage().rss) are left out of a run: l.tm is the
\* timer with now = 0, l.timerCalls the calls that open, close and read stages
timerCall(l, name) == [l EXCEPT !.timerCalls = Append(@, name)]

\* timer.startStep()
stageStart(l) == timerCall([l EXCEPT !.tm = startStep(@, 0)], "startStep")

\* timer.endStep(stepName)
stageEnd(l, stepName) == timerCall([l EXCEPT !.tm = endStep(@, 0, stepName)], stepName)

\* timer.incrementWriteOps(count)
countWrites(l, count) == [l EXCEPT !.tm = incrementWriteOps(@, count)]

\* timer.incrementReadOps(count)
countReads(l, count) == [l EXCEPT !.tm = incrementReadOps(@, count)]

\* timer.recordIntermediateRows(count)
countRows(l, count) == [l EXCEPT !.tm = recordIntermediateRows(@, count)]

\* a table of step 4 that is counted as intermediate rows, written and scanned
countTable(l, count) == countReads(countWrites(countRows(l, count), count), count)

\* a table of step 4 that is written and scanned, but not counted as intermediate rows
countIoOnly(l, count) == countReads(countWrites(l, count), count)

\* the counters of the run's timer
storageOf(l) == l.tm.heap[l.tm.timer.storage]

\* steps 1 and 2 up to the first await: both CSV files are loaded and
\* saveRawDataToDB(data13.rows, 13) is entered
startRun(pattern, records13, records23) ==
    stageStart(stageEnd(stageStart(
    [pc           |-> "rawDelete",
     tm           |-> newDetailedTimer(0),
     timerCalls   |-> <<>>,
     savedRows    |-> 0,
     storage      |-> [status |-> "undefined"],
     pattern      |-> pattern,
     data13       |-> loadElectionCsv(records13),
     data23       |-> loadElectionCsv(records23),
     e            |-> 13,
     i            |-> 1,
     j            |-> 1,
     municipalityId |-> 0,
     rawData13    |-> <<>>,
     rawData23    |-> <<>>,
     joined       |-> <<>>,
     finalResults |-> <<>>,
     csvContent   |-> [header |-> <<>>, lines |-> <<>>],
     rowCount     |-> 0]), "csvLoadMs"))

\* saveRawDataToDB returns: round 23 is saved next, and after it step 3 begins
\* l.savedRows is rawCount13 + rawCount23, the rows created so far
saveRawReturn(l) ==
    IF l.e = 13
    THEN [l EXCEPT !.pc = "rawDelete", !.e = 23, !.i = 1, !.j = 1]
    ELSE stageStart(stageEnd(
             [l EXCEPT !.pc = "rawFind", !.e = 13, !.i = 1, !.j = 1,
                       !.tm = recordStorage(@, [rawDataRows |-> l.savedRows]),
                       !.savedRows = 0],
             "dbWriteRawMs"))

\* for (const row of rows): the next row, or the return
nextRawRow(l) ==
    IF l.i < Len(rowsOf(l))
    THEN [l EXCEPT !.pc = "rawUpsert", !.i = @ + 1, !.j = 1]
    ELSE saveRawReturn(l)

\* await prisma.rawElectionData.deleteMany({where: {electionNo}})
doRawDelete(w) ==
    [w EXCEPT !.rawElectionData = deleteRawData(@, w.l.e),
              !.l = IF rowsOf(w.l) = <<>> THEN saveRawReturn(w.l)
                    ELSE [w.l EXCEPT !.pc = "rawUpsert", !.i = 1, !.j = 1]]

\* await prisma.municipality.upsert(...) for rows[i]
doRawUpsert(w) ==
    LET row   == rowsOf(w.l)[w.l.i]
        munis == upsertMunicipality(w.municipality, row)
        l     == countWrites(
                     [w.l EXCEPT !.municipalityId = Min(MunicipalityIds(munis, row.jisCode)),
                                 !.j = 1], 1)
    IN  [w EXCEPT !.municipality = munis,
                  !.l = IF Entries(row.parties) = <<>> THEN nextRawRow(l)
                        ELSE [l EXCEPT !.pc = "rawCreate"]]

\* await prisma.rawElectionData.create(...) for party j of rows[i]
doRawCreate(w) ==
    LET row     == rowsOf(w.l)[w.l.i]
        parties == Entries(row.parties)
        l       == countWrites([w.l EXCEPT !.savedRows = @ + 1], 1)
    IN  [w EXCEPT !.rawElectionData =
                      Append(@, rawDataRecord(w.l.municipalityId, w.l.e, row,
                                              parties[w.l.j])),
                  !.l = IF l.j < Len(parties) THEN [l EXCEPT !.j = @ + 1]
                        ELSE nextRawRow(l)]

\* step 4 counted as pattern 1 counts it, by every pattern but pattern 2
countStep4AsPattern1(l, rawData13, rawData23) ==
    LET n      == Len(rawData13) + Len(rawData23)
        result == Len(computeStep(l.pattern, rawData13, rawData23))
    IN  IF l.pattern = 2
        THEN countTable(countTable(countTable(l, n), n), result)
        ELSE countIoOnly(countTable(l, n), result)

\* the counting of step 4: pattern 1 counts the two processed arrays as
\* intermediate rows and the joined array as written and scanned only; pattern 2
\* counts unionAll, computed and pivoted; pattern 3 counts the base, party and
\* intermediate tables of each round and the final join
countStep4(l, rawData13, rawData23) ==
    LET n13    == Len(rawData13)
        n23    == Len(rawData23)
        result == Len(computeStep(l.pattern, rawData13, rawData23))
        i13    == Len(intermediateTable(rawData13))
        i23    == Len(intermediateTable(rawData23))
    IN  CASE l.pattern = 1 -> countIoOnly(countTable(l, n13 + n23), result)
          [] l.pattern = 2 ->
                countTable(countTable(countTable(l, n13 + n23), n13 + n23), result)
          [] l.pattern = 3 ->
                countTable(countTable(countTable(l, n13 + n13 + i13), n23 + n23 + i23),
                           result)

\* await prisma.rawElectionData.findMany(...) of loadRawDataFromDB; after round 23
\* the code runs step 4 and enters saveResultsToDB without another await
doRawFind(w) ==
    LET rawData == loadRawDataFromDB(w.rawElectionData, w.municipality, w.l.e)
        l       == countReads(w.l, 1)
        scanned == stageStart(stageEnd(
                       countReads(l, Len(l.rawData13) + Len(rawData)), "dbReadRawMs"))
    IN  IF w.l.e = 13
        THEN [w EXCEPT !.l = [l EXCEPT !.rawData13 = rawData, !.e = 23]]
        ELSE [w EXCEPT !.l = stageStart(stageEnd(
                 [countStep4(scanned, l.rawData13, rawData) EXCEPT
                     !.rawData23 = rawData,
                     !.joined    = computeStep(l.pattern, l.rawData13, rawData),
                     !.pc        = "resDelete"],
                 "computeMs"))]

\* for (const result of results): the next result, or the return into step 6
\* saveResultsToDB returns and step 6 begins with step 5 left open
saveResultsReturnOpen(l) ==
    stageStart([l EXCEPT !.pc = "resFind",
                         !.tm = recordStorage(@, [resultDataRows |-> l.savedRows]),
                         !.savedRows = 0])

\* saveResultsToDB returns its rowCount, and step 6 begins
saveResultsReturn(l) ==
    stageStart(stageEnd(
        [l EXCEPT !.pc = "resFind",
                  !.tm = recordStorage(@, [resultDataRows |-> l.savedRows]),
                  !.savedRows = 0],
        "dbWriteResultMs"))

nextResult(l) ==
    IF l.i < Len(l.joined)
    THEN [l EXCEPT !.pc = "resFindUnique", !.i = @ + 1, !.e = 13, !.j = 1]
    ELSE saveResultsReturn(l)

\* the loop over Object.entries(result.partyShares23)
enterShares23(l) ==
    IF Entries(l.joined[l.i].partyShares23) = <<>> THEN nextResult(l)
    ELSE [l EXCEPT !.pc = "resCreate", !.e = 23, !.j = 1]

\* the loop over Object.entries(result.partyShares13)
enterShares13(l) ==
    IF Entries(l.joined[l.i].partyShares13) = <<>> THEN enterShares23(l)
    ELSE [l EXCEPT !.pc = "resCreate", !.e = 13, !.j = 1]

\* await prisma.electionResult.deleteMany({})
doResDelete(w) ==
    [w EXCEPT !.electionResult = <<>>,
              !.l = IF w.l.joined = <<>> THEN saveResultsReturn(w.l)
                    ELSE [w.l EXCEPT !.pc = "resFindUnique", !.i = 1, !.e = 13, !.j = 1]]

\* await prisma.municipality.findUnique({where: {jisCode: result.jisCode}})
doResFindUnique(w) ==
    LET ids == MunicipalityIds(w.municipality, w.l.joined[w.l.i].jisCode)
    IN  [w EXCEPT !.l = IF ids = {} THEN nextResult(w.l)
                        ELSE enterShares13([w.l EXCEPT !.municipalityId = Min(ids)])]

\* await prisma.electionResult.create(...) for share j of round e of results[i]
doResCreate(w) ==
    LET result == w.l.joined[w.l.i]
        shares == IF w.l.e = 13 THEN result.partyShares13 ELSE result.partyShares23
        turnout == IF w.l.e = 13 THEN result.turnout13 ELSE result.turnout23
        parties == Entries(shares)
        party  == parties[w.l.j]
        l      == countWrites([w.l EXCEPT !.savedRows = @ + 1], 1)
    IN  [w EXCEPT !.electionResult =
                      Append(@, resultRecord(w.l.municipalityId, w.l.e, turnout,
                                             party, shares[party])),
                  !.l = IF l.j < Len(parties) THEN [l EXCEPT !.j = @ + 1]
                        ELSE IF l.e = 13 THEN enterShares23(l)
                        ELSE nextResult(l)]

\* await prisma.electionResult.findMany(...) of loadResultsFromDB, then step 7
\* timer.getTimings() and timer.getStorageMetrics() after step 7
readTimer(l) ==
    LET got == getStorageMetrics(l.tm)
    IN  timerCall(timerCall([l EXCEPT !.tm = got.tm, !.storage = got.tm.heap[got.result]],
                            "getTimings"),
                  "getStorageMetrics")

doResFind(w) ==
    LET finalResults == loadResultsFromDB(w.electionResult, w.municipality)
        l == stageStart(stageEnd(
                 countReads(countReads(w.l, 1), Len(finalResults)), "dbReadResultMs"))
    IN  [w EXCEPT !.l = readTimer(stageEnd(
            [l EXCEPT
                !.finalResults = finalResults,
                !.csvContent   = convertToCSV(finalResults, w.l.data13.partyNames,
                                              w.l.data23.partyNames),
                !.pc           = "saveMergeRun"],
            "csvWriteMs"))]

\* await saveMergeRun(pattern, timings, storage, finalResults.length, ...); return
\* prisma.mergeRun.create of saveMergeRun, with finishedAt = new Date()
saveMergeRun(tbl, pattern, storage, rowCount, now) ==
    Append(tbl, [pattern          |-> pattern,
                 rowCount         |-> rowCount,
                 intermediateRows |-> storage.intermediateRows,
                 dbWriteOps       |-> storage.dbWriteOps,
                 dbReadOps        |-> storage.dbReadOps,
                 rawDataRows      |-> storage.rawDataRows,
                 resultDataRows   |-> storage.resultDataRows,
                 finishedAt       |-> now])

doSaveMergeRunAt(w, now) ==
    [w EXCEPT !.mergeRun = saveMergeRun(@, w.l.pattern, w.l.storage,
                                        Len(w.l.finalResults), now),
              !.l = [w.l EXCEPT !.rowCount = Len(w.l.finalResults), !.pc = "done"]]

\* with the clock of the server at 0
doSaveMergeRun(w) == doSaveMergeRunAt(w, 0)

stepRun(w) ==
    CASE w.l.pc = "rawDelete"     -> doRawDelete(w)
      [] w.l.pc = "rawUpsert"     -> doRawUpsert(w)
      [] w.l.pc = "rawCreate"     -> doRawCreate(w)
      [] w.l.pc = "rawFind"       -> doRawFind(w)
      [] w.l.pc = "resDelete"     -> doResDelete(w)
      [] w.l.pc = "resFindUnique" -> doResFindUnique(w)
      [] w.l.pc = "resCreate"     -> doResCreate(w)
      [] w.l.pc = "resFind"       -> doResFind(w)
      [] w.l.pc = "saveMergeRun"  -> doSaveMergeRun(w)

\* the stage of the run that the code at pc belongs to, by the name the stage's
\* time is stored under; saveMergeRun comes after the seven stages
stageOf(pc) ==
    CASE pc = "idle" -> "csvLoadMs"
      [] pc \in {"rawDelete", "rawUpsert", "rawCreate"} -> "dbWriteRawMs"
      [] pc = "rawFind" -> "dbReadRawMs"
      [] pc \in {"resDelete", "resFindUnique", "resCreate"} -> "dbWriteResultMs"
      [] pc = "resFind" -> "dbReadResultMs"
      [] pc = "saveMergeRun" -> "saveMergeRun"

\* the rejection of the awaited call saves a MergeRun record with empty counters
throwRunSavingMetrics(w) ==
    [w EXCEPT !.mergeRun = saveMergeRun(@, 1, storageOf([tm |-> newDetailedTimer(0)]), 0, 0),
              !.l = [pc |-> "threw", stage |-> stageOf(w.l.pc)]]

\* the awaited call rejects (or the file access of the stage throws): the tables
\* stay as they are, the exception leaves runPattern1DB / runPattern2DB and the
\* route answers with the error, without rowCount or timings
throwRun(w) ==
    [w EXCEPT !.l = [pc |-> "threw", stage |-> stageOf(w.l.pc)]]

\* the run carried through all its awaits with no other request in between
RECURSIVE runToReturn(_)
runToReturn(w) == IF w.l.pc = "done" THEN w ELSE runToReturn(stepRun(w))

EmptyWorld(l) ==
    [municipality    |-> <<>>,
     rawElectionData |-> <<>>,
     electionResult  |-> <<>>,
     mergeRun        |-> <<>>,
     l               |-> l]

\* what a request of the given pattern returns when it is the only one
runAlone(pattern, records13, records23) ==
    runToReturn(EmptyWorld(startRun(pattern, records13, records23))).l

-----------------------------------------------------------------------------
(* Input batches *)

CsvRecord(jisCode, party, votes, meta, tally) ==
    [jisCode    |-> jisCode,
     party      |-> party,
     votes      |-> votes,
     prefCode   |-> meta[1],
     prefName   |-> meta[2],
     cityName   |-> meta[3],
     electorate |-> tally[1],
     ballots    |-> tally[2],
     validVotes |-> tally[3]]

Kobe == <<"28", "Hyogo", "Kobe">>

Sakai == <<"27", "Osaka", "Sakai">>

GenKeys == {"A", "B"}

GenParties == {"X", "Y"}

\* votes, metadata and <<electorate, ballots, validVotes>> carried by a generated CSV line
GenVariants ==
    {[votes |-> 1, meta |-> Kobe,  tally |-> <<3, 2, 3>>],
     [votes |-> 2, meta |-> Sakai, tally |-> <<3, 1, 2>>]}

\* a CSV line of a district with no elector and no valid vote
GenZeroRecord == CsvRecord("A", "X", 1, Kobe, <<0, 1, 0>>)

GenRecords ==
    {CsvRecord(k, p, v.votes, v.meta, v.tally) :
        k \in GenKeys, p \in GenParties, v \in GenVariants}
    \cup {GenZeroRecord}

\* spec section 8, end-to-end scenario
ScenarioEndToEnd ==
    [csv13 |-> <<CsvRecord("001", "P", 300, Kobe, <<1000, 600, 580>>),
                 CsvRecord("001", "Q", 280, Kobe, <<1000, 600, 580>>)>>,
     csv23 |-> <<CsvRecord("001", "P", 340, Kobe, <<1000, 650, 640>>),
                 CsvRecord("001", "R", 300, Kobe, <<1000, 650, 640>>)>>]

\* spec section 8, category union completeness: categories {X, Y} and {Y, Z}
ScenarioCategoryUnion ==
    [csv13 |-> <<CsvRecord("A", "X", 1, Kobe, <<3, 2, 3>>),
                 CsvRecord("A", "Y", 2, Kobe, <<3, 2, 3>>)>>,
     csv23 |-> <<CsvRecord("A", "Y", 1, Kobe, <<3, 3, 2>>),
                 CsvRecord("A", "Z", 1, Kobe, <<3, 3, 2>>)>>]

\* spec section 8, inner-join membership: keys {A, B} and {B, C}
ScenarioInnerJoin ==
    [csv13 |-> <<CsvRecord("A", "X", 1, Kobe, <<3, 2, 3>>),
                 CsvRecord("B", "X", 2, Sakai, <<3, 2, 3>>)>>,
     csv23 |-> <<CsvRecord("B", "X", 1, Sakai, <<3, 3, 2>>),
                 CsvRecord("C", "X", 1, Kobe, <<3, 3, 2>>)>>]

\* spec section 8, zero-guard: turnout(100, 0) and relativeShare(50, 0)
ScenarioZeroGuard ==
    [csv13 |-> <<CsvRecord("A", "X", 50, Kobe, <<0, 100, 0>>)>>,
     csv23 |-> <<CsvRecord("A", "X", 1, Kobe, <<3, 2, 3>>),
                 CsvRecord("B", "X", 50, Kobe, <<200, 100, 0>>)>>]

Scenarios ==
    {ScenarioEndToEnd, ScenarioCategoryUnion, ScenarioInnerJoin, ScenarioZeroGuard}

InputBatches(records13, records23) ==
    \/ \E n13 \in 0..MaxRecs : \E n23 \in 0..(MaxRecs - n13) :
          /\ records13 \in [1..n13 -> GenRecords]
          /\ records23 \in [1..n23 -> GenRecords]
    \/ \E s \in Scenarios : records13 = s.csv13 /\ records23 = s.csv23

-----------------------------------------------------------------------------
(* The in-memory topologies, each run once on the same pair of files *)

Patterns == {1, 2, 3}

\* no call of common.ts under way
NoCall == [op |-> "none"]

\* no page open in a browser
NoPage == [status |-> "none"]

\* no DetailedTimer constructed
NoTimer == [status |-> "none"]

\* the functions of common.ts and the DetailedTimer are not exercised on their own
LibIdle ==
    /\ call = NoCall
    /\ clock = 0
    /\ heap = <<>>
    /\ timer = NoTimer
    /\ snap = 0
    /\ trace = <<>>

EmptyTables ==
    /\ municipality = <<>>
    /\ rawElectionData = <<>>
    /\ electionResult = <<>>
    /\ mergeRun = <<>>

InitMem ==
    /\ InputBatches(csv13, csv23)
    /\ out = [p \in Patterns |-> NotRun]
    /\ EmptyTables
    /\ run = [r \in Runs |-> Idle]
    /\ LibIdle
    /\ page = NoPage

RunPattern1 ==
    /\ out[1] = NotRun
    /\ out' = [out EXCEPT ![1] = transformPattern1(csv13, csv23)]
    /\ UNCHANGED <<csv13, csv23, tables, run, libVars, page>>

RunPattern2 ==
    /\ out[2] = NotRun
    /\ out' = [out EXCEPT ![2] = transformPattern2(csv13, csv23)]
    /\ UNCHANGED <<csv13, csv23, tables, run, libVars, page>>

RunPattern3 ==
    /\ out[3] = NotRun
    /\ out' = [out EXCEPT ![3] = transformPattern3(csv13, csv23)]
    /\ UNCHANGED <<csv13, csv23, tables, run, libVars, page>>

NextMem == RunPattern1 \/ RunPattern2 \/ RunPattern3

SpecMem == InitMem /\ [][NextMem]_vars

-----------------------------------------------------------------------------
(* The persistence-backed topologies: requests to /api/run/1 and /api/run/2,
   which read the same two files and write the same tables *)

\* bound of the CSV lines of the two files of a persistence-backed run
MaxDbRecs == 2

DbPatterns == {1, 2, 3}

\* the latest reading of new Date() on the server
MaxDate == 1

Dates == 0..MaxDate

World(r) ==
    [municipality    |-> municipality,
     rawElectionData |-> rawElectionData,
     electionResult  |-> electionResult,
     mergeRun        |-> mergeRun,
     l               |-> run[r]]

Commit(r, w) ==
    /\ municipality' = w.municipality
    /\ rawElectionData' = w.rawElectionData
    /\ electionResult' = w.electionResult
    /\ mergeRun' = w.mergeRun
    /\ run' = [run EXCEPT ![r] = w.l]
    /\ UNCHANGED <<csv13, csv23, out, libVars, page>>

StartRun(r) ==
    /\ run[r].pc = "idle"
    /\ \E pattern \in DbPatterns :
          run' = [run EXCEPT ![r] = startRun(pattern, csv13, csv23)]
    /\ UNCHANGED <<csv13, csv23, out, tables, libVars, page>>

RawDelete(r) == run[r].pc = "rawDelete" /\ Commit(r, doRawDelete(World(r)))

RawUpsert(r) == run[r].pc = "rawUpsert" /\ Commit(r, doRawUpsert(World(r)))

RawCreate(r) == run[r].pc = "rawCreate" /\ Commit(r, doRawCreate(World(r)))

RawFind(r) == run[r].pc = "rawFind" /\ Commit(r, doRawFind(World(r)))

ResDelete(r) == run[r].pc = "resDelete" /\ Commit(r, doResDelete(World(r)))

ResFindUnique(r) == run[r].pc = "resFindUnique" /\ Commit(r, doResFindUnique(World(r)))

ResCreate(r) == run[r].pc = "resCreate" /\ Commit(r, doResCreate(World(r)))

ResFind(r) == run[r].pc = "resFind" /\ Commit(r, doResFind(World(r)))

SaveMergeRun(r) ==
    /\ run[r].pc = "saveMergeRun"
    /\ \E now \in Dates : Commit(r, doSaveMergeRunAt(World(r), now))

Throw(r) == run[r].pc \notin {"done", "threw"} /\ Commit(r, throwRun(World(r)))

StepOf(r) ==
    \/ StartRun(r)
    \/ RawDelete(r)
    \/ RawUpsert(r)
    \/ RawCreate(r)
    \/ RawFind(r)
    \/ ResDelete(r)
    \/ ResFindUnique(r)
    \/ ResCreate(r)
    \/ ResFind(r)
    \/ SaveMergeRun(r)
    \/ Throw(r)

DbBatches(records13, records23) ==
    \/ \E n13 \in 0..MaxDbRecs : \E n23 \in 0..(MaxDbRecs - n13) :
          /\ records13 \in [1..n13 -> GenRecords]
          /\ records23 \in [1..n23 -> GenRecords]
    \/ \E s \in Scenarios : records13 = s.csv13 /\ records23 = s.csv23

InitDb ==
    /\ DbBatches(csv13, csv23)
    /\ out = [p \in Patterns |-> NotRun]
    /\ EmptyTables
    /\ run = [r \in Runs |-> Idle]
    /\ LibIdle
    /\ page = NoPage

\* one request, executed in isolation
NextSolo == StepOf(1)

SpecSolo == InitDb /\ [][NextSolo]_vars

\* the CSV lines the files of two concurrent requests are made of
ConcRecords ==
    {CsvRecord("A", "X", 1, Kobe, <<3, 2, 3>>),
     CsvRecord("B", "X", 2, Sakai, <<3, 1, 2>>)}

ConcBatches(records13, records23) ==
    \E n13 \in 0..MaxDbRecs : \E n23 \in 0..(MaxDbRecs - n13) :
       /\ records13 \in [1..n13 -> ConcRecords]
       /\ records23 \in [1..n23 -> ConcRecords]

InitConc ==
    /\ ConcBatches(csv13, csv23)
    /\ out = [p \in Patterns |-> NotRun]
    /\ EmptyTables
    /\ run = [r \in Runs |-> Idle]
    /\ LibIdle
    /\ page = NoPage

\* two requests, interleaved at every await
NextConc == \E r \in Runs : StepOf(r)

SpecConc == InitConc /\ [][NextConc]_vars

-----------------------------------------------------------------------------
(* What the claims say about an input batch, stated on the CSV records *)

\* bound of the vote counts the zero-guard is tried on
MaxCount == 4

CsvKeys(records) == {records[i].jisCode : i \in 1..Len(records)}

CsvParties(records) == {records[i].party : i \in 1..Len(records)}

\* the first CSV line of district key: it carries the district's metadata and tallies
FirstRecord(records, key) ==
    records[Min({i \in 1..Len(records) : records[i].jisCode = key})]

\* votes of party in district key, summed over the CSV lines
VotesOf(records, key, party) ==
    SumSeq([i \in 1..Len(records) |->
        IF records[i].jisCode = key /\ records[i].party = party
        THEN records[i].votes ELSE 0])

\* n / d rounded to Decimals places, exact halves away from zero
RoundHalfAway(n, d) == (2 * Pow(10, Decimals) * n + d) \div (2 * d)

Ran(p) == out[p] # NotRun

AllRan == \A p \in Patterns : Ran(p)

RowsOfKey(rows, key) == {i \in 1..Len(rows) : rows[i].jis_code = key}

CommonKeys == CsvKeys(csv13) \cap CsvKeys(csv23)

UnionParties == CsvParties(csv13) \cup CsvParties(csv23)

HasValue(row, column, value) == column \in DOMAIN row /\ row[column] = value

-----------------------------------------------------------------------------
(* Claims on the in-memory topologies *)

\* C1: the three topologies return the same header and the same set of rows
\* (same district keys, same columns present in every row, same values).
C1_CrossTopologyEquivalence ==
    AllRan =>
        /\ out[1].header = out[2].header /\ out[2].header = out[3].header
        /\ \A p, q \in Patterns :
              \A i \in 1..Len(out[p].rows) : \E j \in 1..Len(out[q].rows) :
                 /\ DOMAIN out[p].rows[i] = DOMAIN out[q].rows[j]
                 /\ \A c \in DOMAIN out[p].rows[i] : out[p].rows[i][c] = out[q].rows[j][c]

\* C2: with categories {X, Y} in round 13 and {Y, Z} in round 23, every row of
\* every topology has a value in the columns of X, Y and Z of both rounds, and
\* the value is 0 where the category does not exist in the round.
C2_CategoryUnionCompleteness ==
    (CsvParties(csv13) = {"X", "Y"} /\ CsvParties(csv23) = {"Y", "Z"}) =>
        \A p \in Patterns : Ran(p) =>
            \A i \in 1..Len(out[p].rows) :
               /\ \A c \in {"X_13", "X_23", "Y_13", "Y_23", "Z_13", "Z_23"} :
                     c \in DOMAIN out[p].rows[i]
               /\ HasValue(out[p].rows[i], "X_23", 0)
               /\ HasValue(out[p].rows[i], "Z_13", 0)

\* C3: the output of each topology has exactly one row for every district key
\* present in both rounds and no row for any other key.
C3_InnerJoinMembership ==
    \A p \in Patterns : Ran(p) =>
        /\ \A k \in CommonKeys : Cardinality(RowsOfKey(out[p].rows, k)) = 1
        /\ \A i \in 1..Len(out[p].rows) : out[p].rows[i].jis_code \in CommonKeys

C3_Witness ==
    /\ AllRan
    /\ CsvKeys(csv13) = {"A", "B"} /\ CsvKeys(csv23) = {"B", "C"}
    /\ \A p \in Patterns : Len(out[p].rows) = 1 /\ out[p].rows[1].jis_code = "B"

\* the ratios of a merged row come from the source row of its own round
RatiosFromOwnRound(row) ==
    LET src13 == FirstRecord(csv13, row.jis_code)
        src23 == FirstRecord(csv23, row.jis_code)
    IN  /\ src13.electorate # 0 =>
              row.turnout_13 = RoundHalfAway(src13.ballots, src13.electorate)
        /\ src23.electorate # 0 =>
              row.turnout_23 = RoundHalfAway(src23.ballots, src23.electorate)
        /\ \A c \in CsvParties(csv13) : src13.validVotes # 0 =>
              HasValue(row, makePartyColumn(c, 13),
                       RoundHalfAway(VotesOf(csv13, row.jis_code, c), src13.validVotes))
        /\ \A c \in CsvParties(csv23) : src23.validVotes # 0 =>
              HasValue(row, makePartyColumn(c, 23),
                       RoundHalfAway(VotesOf(csv23, row.jis_code, c), src23.validVotes))

\* C5: every turnout_N and <category>_N value is round(…, 4) of the round-N
\* source row of the district, and the end-to-end scenario gives, for key 001,
\* turnout 0.6000 / 0.6500, P 0.5172 / 0.5313, Q_13 0.4828, R_23 0.4688,
\* Q_23 0.0000 and R_13 0.0000.
C5_ValueCorrectness ==
    \A p \in Patterns : Ran(p) =>
        /\ \A i \in 1..Len(out[p].rows) : RatiosFromOwnRound(out[p].rows[i])
        /\ (csv13 = ScenarioEndToEnd.csv13 /\ csv23 = ScenarioEndToEnd.csv23) =>
              /\ Len(out[p].rows) = 1
              /\ HasValue(out[p].rows[1], "jis_code", "001")
              /\ HasValue(out[p].rows[1], "turnout_13", 6000)
              /\ HasValue(out[p].rows[1], "turnout_23", 6500)
              /\ HasValue(out[p].rows[1], "P_13", 5172)
              /\ HasValue(out[p].rows[1], "P_23", 5313)
              /\ HasValue(out[p].rows[1], "Q_13", 4828)
              /\ HasValue(out[p].rows[1], "R_23", 4688)
              /\ HasValue(out[p].rows[1], "Q_23", 0)
              /\ HasValue(out[p].rows[1], "R_13", 0)

MetadataOf(record) == <<record.prefCode, record.prefName, record.cityName>>

CsvOf(electionNo) == IF electionNo = 13 THEN csv13 ELSE csv23

DuplicatedKeys(records) ==
    {k \in CsvKeys(records) :
        Cardinality({i \in 1..Len(records) : records[i].jisCode = k}) > 1}

\* the Base table pattern 3 builds for a round
BaseTableOf(electionNo) ==
    createBaseTable(loadElectionCsv(CsvOf(electionNo)).rows, electionNo)

\* C6: when a round's input has several rows with one district key, the Base
\* table of pattern 3 holds exactly one row for the key, the first seen, and the
\* output of pattern 3 has at most one row per district key.
C6_Pattern3DuplicateKeyPolicy ==
    Ran(3) =>
        /\ \A e \in {13, 23} : \A k \in CsvKeys(CsvOf(e)) :
              LET at == {i \in 1..Len(BaseTableOf(e)) : BaseTableOf(e)[i].jisCode = k}
              IN  /\ Cardinality(at) = 1
                  /\ \A i \in at :
                        <<BaseTableOf(e)[i].prefCode, BaseTableOf(e)[i].prefName,
                          BaseTableOf(e)[i].cityName>>
                            = MetadataOf(FirstRecord(CsvOf(e), k))
        /\ \A k \in CsvKeys(csv13) \cup CsvKeys(csv23) :
              Cardinality(RowsOfKey(out[3].rows, k)) <= 1

C6_Witness ==
    /\ Ran(3)
    /\ \E k \in DuplicatedKeys(csv13) \cap CsvKeys(csv23) :
          /\ \E i \in 1..Len(csv13) :
                csv13[i].jisCode = k /\ MetadataOf(csv13[i]) # MetadataOf(FirstRecord(csv13, k))
          /\ Cardinality(RowsOfKey(out[3].rows, k)) = 1

InconsistentMetadata ==
    \E k \in CommonKeys :
        MetadataOf(FirstRecord(csv13, k)) # MetadataOf(FirstRecord(csv23, k))

\* C7: when the two rounds carry different region code, region name or district
\* name for one district key, the run of every topology ends in an error and
\* yields no merged output.
C7_InconsistentMetadataIsError ==
    \A p \in Patterns : (Ran(p) /\ InconsistentMetadata) => out[p].status = "threw"

ZeroDenominator(records) ==
    \E k \in CsvKeys(records) :
        FirstRecord(records, k).electorate = 0 \/ FirstRecord(records, k).validVotes = 0

\* C10: computeTurnout(b, 0) and computeRelativeShare(v, 0) return 0 with one
\* warning for every b and v; a run over an input with electorate = 0 or
\* validVotes = 0 returns, keeps the district's row and has 0 in the affected ratios.
C10_ZeroGuard ==
    /\ \A n \in 0..MaxCount :
          /\ computeTurnout(n, 0) = 0 /\ computeTurnoutWarns(n, 0) = 1
          /\ computeRelativeShare(n, 0) = 0 /\ computeRelativeShareWarns(n, 0) = 1
    /\ \A p \in Patterns : Ran(p) =>
          /\ out[p].status = "returned"
          /\ (ZeroDenominator(csv13) \/ ZeroDenominator(csv23)) => out[p].warns >= 1
          /\ \A k \in CommonKeys : \E i \in 1..Len(out[p].rows) :
                /\ out[p].rows[i].jis_code = k
                /\ FirstRecord(csv13, k).electorate = 0 => out[p].rows[i].turnout_13 = 0
                /\ FirstRecord(csv23, k).electorate = 0 => out[p].rows[i].turnout_23 = 0
                /\ FirstRecord(csv13, k).validVotes = 0 =>
                      \A c \in CsvParties(csv13) :
                          HasValue(out[p].rows[i], makePartyColumn(c, 13), 0)
                /\ FirstRecord(csv23, k).validVotes = 0 =>
                      \A c \in CsvParties(csv23) :
                          HasValue(out[p].rows[i], makePartyColumn(c, 23), 0)

C10_Witness ==
    /\ AllRan
    /\ \E k \in CommonKeys :
          /\ FirstRecord(csv13, k).electorate = 0
          /\ FirstRecord(csv13, k).ballots = 100
          /\ FirstRecord(csv13, k).validVotes = 0
          /\ VotesOf(csv13, k, "X") = 50
          /\ \A p \in Patterns : \E i \in 1..Len(out[p].rows) :
                /\ out[p].rows[i].jis_code = k
                /\ out[p].rows[i].turnout_13 = 0
                /\ out[p].rows[i].X_13 = 0
                /\ out[p].warns >= 2

-----------------------------------------------------------------------------
(* Claims on the persistence-backed topologies *)

Done(r) == run[r].pc = "done"

\* the merged rows of in-memory pattern p on the two files
MemRows(p) ==
    CASE p = 1 -> transformPattern1(csv13, csv23).rows
      [] p = 2 -> transformPattern2(csv13, csv23).rows
      [] p = 3 -> transformPattern3(csv13, csv23).rows

\* C8: in every merged row the region code, region name and district name are
\* those of the round-13 source row with the row's district key: in the rows
\* of the three in-memory topologies, and in the rows a persistence-backed run
\* executed alone reads back, whose metadata comes from the municipality table.
C8_MetadataFromRound1 ==
    /\ \A p \in Patterns : \A i \in 1..Len(MemRows(p)) :
          <<MemRows(p)[i].pref_code, MemRows(p)[i].pref_name, MemRows(p)[i].city_name>>
              = MetadataOf(FirstRecord(csv13, MemRows(p)[i].jis_code))
    /\ Done(1) =>
          \A i \in 1..Len(run[1].finalResults) :
              MetadataOf(run[1].finalResults[i])
                  = MetadataOf(FirstRecord(csv13, run[1].finalResults[i].jisCode))

\* the in-memory half of C8
C8_InMemoryMetadataFromRound1 ==
    \A p \in Patterns : \A i \in 1..Len(MemRows(p)) :
        <<MemRows(p)[i].pref_code, MemRows(p)[i].pref_name, MemRows(p)[i].city_name>>
            = MetadataOf(FirstRecord(csv13, MemRows(p)[i].jis_code))

\* the municipality table of the batch variant holds round 13's metadata for
\* every district key of round 13
C8_BatchMunicipalitiesFromRound1 ==
    LET munis == batchMunicipalities(<<>>, loadElectionCsv(csv13).rows,
                                     loadElectionCsv(csv23).rows)
    IN  \A k \in CsvKeys(csv13) : \E m \in 1..Len(munis) :
            /\ munis[m].jisCode = k
            /\ MetadataOf(munis[m]) = MetadataOf(FirstRecord(csv13, k))

\* the persistence-backed run agrees with round 13 on the metadata whenever
\* the two rounds carry the same metadata for every common district key
C8_RunMetadataWhenRoundsAgree ==
    (Done(1) /\ ~InconsistentMetadata) =>
        \A i \in 1..Len(run[1].finalResults) :
            MetadataOf(run[1].finalResults[i])
                = MetadataOf(FirstRecord(csv13, run[1].finalResults[i].jisCode))

\* the cell convertToCSV wrote holds the value of the cell writeCsv writes for
\* column c of the in-memory row: the same text, or the same number to 4 places
SameCellValue(row, header, c, dbCell) ==
    \/ dbCell = writeCsvCell(row, header, c)
    \/ /\ NumericColumn(header, c)
       /\ header[c] \in DOMAIN row
       /\ dbCell = toFixed(row[header[c]])

\* the place of the district key in a CSV line
JisColumn == Min({c \in 1..Len(FixedColumns) : FixedColumns[c] = "jis_code"})

LineKeys(csv) == {csv.lines[i][JisColumn] : i \in 1..Len(csv.lines)}

\* C9: a runPattern1DB executed alone emits the header and the district keys
\* that transformPattern1 followed by writeCsv emits on the same two files, and
\* for every district key and every column of the header the same cell value.
C9_PersistenceEqualsInMemory ==
    (Done(1) /\ run[1].pattern = 1) =>
        LET mem    == transformPattern1(csv13, csv23)
            memCsv == writeCsv(mem.header, mem.rows)
            dbCsv  == run[1].csvContent
        IN  /\ dbCsv.header = memCsv.header
            /\ LineKeys(dbCsv) = LineKeys(memCsv)
            /\ \A i \in 1..Len(dbCsv.lines) : \A m \in 1..Len(mem.rows) :
                  mem.rows[m].jis_code = dbCsv.lines[i][JisColumn] =>
                      \A c \in 1..Len(mem.header) :
                          SameCellValue(mem.rows[m], mem.header, c, dbCsv.lines[i][c])

\* the two variants agree when every party stands in both rounds and the two
\* rounds carry the same metadata
C9_EqualWhenPartiesAndMetadataAgree ==
    (/\ CsvParties(csv13) = CsvParties(csv23)
     /\ ~InconsistentMetadata) => C9_PersistenceEqualsInMemory

\* C4: each of two interleaved persistence-backed runs returns the rowCount and
\* emits the rows that a run of its pattern returns and emits when it is the
\* only run on the same two files.
C4_RunIsolation ==
    \A r \in Runs :
        Done(r) =>
            LET alone == runAlone(run[r].pattern, csv13, csv23)
            IN  /\ run[r].rowCount = alone.rowCount
                /\ run[r].csvContent = alone.csvContent

\* a run that no other run interleaves with returns what runAlone computes
C4_SoloRunIsRunAlone ==
    Done(1) => run[1] = runAlone(run[1].pattern, csv13, csv23)

-----------------------------------------------------------------------------
(* Claims C11 to C20 *)

\* district key has no CSV line for party in the round's file
LacksEntry(records, key, party) ==
    /\ key \in CsvKeys(records)
    /\ party \in CsvParties(records)
    /\ ~\E i \in 1..Len(records) : records[i].jisCode = key /\ records[i].party = party

\* C11: when a district has no entry for a category that is in its round's
\* category list, every topology returns, and the district's merged row holds
\* the share 0 in the column of that category and round.
C11_MissingCategoryIsZero ==
    \A p \in Patterns :
        Ran(p) =>
            /\ out[p].status = "returned"
            /\ \A i \in 1..Len(out[p].rows) : \A e \in {13, 23} :
                  \A c \in CsvParties(CsvOf(e)) :
                      LacksEntry(CsvOf(e), out[p].rows[i].jis_code, c) =>
                          HasValue(out[p].rows[i], makePartyColumn(c, e), 0)

C11_Witness ==
    /\ AllRan
    /\ \E k \in CommonKeys : \E e \in {13, 23} : \E c \in CsvParties(CsvOf(e)) :
          /\ LacksEntry(CsvOf(e), k, c)
          /\ FirstRecord(CsvOf(e), k).validVotes > 0
          /\ \A p \in Patterns : \E i \in 1..Len(out[p].rows) :
                /\ out[p].rows[i].jis_code = k
                /\ HasValue(out[p].rows[i], makePartyColumn(c, e), 0)

-----------------------------------------------------------------------------
(* common.ts: computeTurnout and computeRelativeShare called on their own *)

\* bounds of the numerator and of the denominator of a ratio
MaxNumerator == 60

MaxDenominator == 800

\* no file read, no pattern run, no request
AppIdle ==
    /\ csv13 = <<>>
    /\ csv23 = <<>>
    /\ out = [p \in Patterns |-> NotRun]
    /\ EmptyTables
    /\ run = [r \in Runs |-> Idle]
    /\ page = NoPage

TimerIdle ==
    /\ clock = 0
    /\ heap = <<>>
    /\ timer = NoTimer
    /\ snap = 0
    /\ trace = <<>>

InitRound ==
    /\ AppIdle
    /\ TimerIdle
    /\ \E n \in 0..MaxNumerator : \E d \in 0..MaxDenominator :
          call = [op |-> "pending", n |-> n, d |-> d]

CallComputeTurnout ==
    /\ call.op = "pending"
    /\ call' = [op |-> "computeTurnout", n |-> call.n, d |-> call.d,
                result |-> computeTurnout(call.n, call.d)]
    /\ UNCHANGED <<appVars, clock, heap, timer, snap, trace>>

CallComputeRelativeShare ==
    /\ call.op = "pending"
    /\ call' = [op |-> "computeRelativeShare", n |-> call.n, d |-> call.d,
                result |-> computeRelativeShare(call.n, call.d)]
    /\ UNCHANGED <<appVars, clock, heap, timer, snap, trace>>

NextRound == CallComputeTurnout \/ CallComputeRelativeShare

SpecRound == InitRound /\ [][NextRound]_vars

Returned(op) == call.op = op

\* C12: for a positive denominator, computeTurnout(n, d) and
\* computeRelativeShare(n, d) return n / d rounded to 4 decimal places with
\* exact halves away from zero: 10^4 times the result is
\* floor((2 * 10^4 * n + d) / (2 * d)); 1/3 gives 0.3333 and 2/3 gives 0.6667.
C12_RoundHalfAwayFromZero ==
    ((Returned("computeTurnout") \/ Returned("computeRelativeShare")) /\ call.d > 0) =>
        /\ call.result = (2 * 10000 * call.n + call.d) \div (2 * call.d)
        /\ (call.n = 1 /\ call.d = 3) => call.result = 3333
        /\ (call.n = 2 /\ call.d = 3) => call.result = 6667

\* the results are the half-away roundings for every pair of arguments other
\* than those whose double product falls below the half
C12_ExceptDoubleBelowHalf ==
    (/\ Returned("computeTurnout") \/ Returned("computeRelativeShare")
     /\ call.d > 0
     /\ <<call.n, call.d>> \notin DoubleBelowHalf) =>
        call.result = (2 * 10000 * call.n + call.d) \div (2 * call.d)

-----------------------------------------------------------------------------
(* Serialization of the numeric cells *)

\* the ratio k / 10^4 written with exactly 4 digits after the decimal point
FourPlaces(k) ==
    ToString(k \div 10000) \o "." \o ToString((k \div 1000) % 10)
        \o ToString((k \div 100) % 10) \o ToString((k \div 10) % 10) \o ToString(k % 10)

\* the number a merged record of the persistence-backed path holds for a column
ResultValue(result, column) ==
    IF column = "turnout_13" THEN result.turnout13
    ELSE IF column = "turnout_23" THEN result.turnout23
    ELSE LET p == CHOOSE q \in Range(PartyOrder) :
                      column \in {makePartyColumn(q, 13), makePartyColumn(q, 23)}
         IN  IF column = makePartyColumn(p, 13)
             THEN GetOr0(result.partyShares13, p)
             ELSE GetOr0(result.partyShares23, p)

\* every numeric cell writeCsv emits for a value the row holds has 4 decimal places
WriteCsvFourPlaces(header, rows) ==
    \A i \in 1..Len(rows) : \A c \in 1..Len(header) :
        (NumericColumn(header, c) /\ header[c] \in DOMAIN rows[i]) =>
            writeCsv(header, rows).lines[i][c] = FourPlaces(rows[i][header[c]])

\* every numeric cell convertToCSV emitted for the records read back has 4 decimal places
ConvertToCSVFourPlaces(l) ==
    \A i \in 1..Len(l.csvContent.lines) : \A c \in 1..Len(l.csvContent.header) :
        NumericColumn(l.csvContent.header, c) =>
            l.csvContent.lines[i][c]
                = FourPlaces(ResultValue(l.finalResults[i], l.csvContent.header[c]))

\* C13: every turnout and share cell of the emitted table is written with
\* exactly 4 digits after the decimal point, on the in-memory path (a pattern's
\* rows through writeCsv) and on the persistence-backed path (convertToCSV).
C13_FourDecimalPlaces ==
    /\ \A p \in Patterns : Ran(p) => WriteCsvFourPlaces(out[p].header, out[p].rows)
    /\ \A p \in DbPatterns : ConvertToCSVFourPlaces(runAlone(p, csv13, csv23))

\* the persistence-backed half of C13, on the run as it executes
C13_PersistencePathFourPlaces ==
    Done(1) => ConvertToCSVFourPlaces(run[1])

-----------------------------------------------------------------------------
(* Metrics records of the runs *)

Threw(r) == run[r].pc = "threw"

\* C14: the MergeRun table holds one record for every run that went through
\* its seven stages and returned, of that run's pattern, and no other record;
\* a run that threw, in whichever stage, saved none and answers without
\* rowCount or metrics.
C14_NoPartialMetrics ==
    /\ Len(mergeRun) = Cardinality({r \in Runs : Done(r)})
    /\ \A p \in DbPatterns :
          Cardinality({m \in 1..Len(mergeRun) : mergeRun[m].pattern = p})
              = Cardinality({r \in Runs : Done(r) /\ run[r].pattern = p})
    /\ \A r \in Runs : Threw(r) => DOMAIN run[r] = {"pc", "stage"}

\* a run threw while saving its results, after it had written rows, and no
\* MergeRun record exists
C14_Witness ==
    /\ Threw(1)
    /\ run[1].stage = "dbWriteResultMs"
    /\ electionResult # <<>>
    /\ mergeRun = <<>>

-----------------------------------------------------------------------------
(* A DetailedTimer and the object a caller got from getStorageMetrics(), under
   every sequence of calls *)

\* bound of the number of calls made on the timer
MaxCalls == 3

\* bound of performance.now()
MaxClock == 1

\* the stages whose time the calls of the model end
EndedSteps == {"csvLoadMs", "computeMs"}

\* the arguments of recordStorage: a row count as the runs pass it, and two that name a counter
StorageArgs ==
    {[rawDataRows |-> 2], [dbWriteOps |-> 0], [peakMemoryMB |-> 0]}

\* the counts the runs pass: 1 and the length of an array
OpCounts == {1, 2}

\* array lengths of 0.0059 MB and 1.0049 MB at 1024 bytes per row
ArrayLengths == {6, 1029}

\* estimatedBytesPerRow: the default value
DefaultBytesPerRow == 1024

\* resident sizes of 1.00 MB and 1.50 MB
RssSizes == {BytesPerMB, 3 * (BytesPerMB \div 2)}

\* the fields a caller overwrites in the object it got, and the value it writes
MutatedFields == {"dbReadOps", "peakMemoryMB"}

MutatedValue == 7

Tm == [timer |-> timer, heap |-> heap]

Called(tm, entry) ==
    /\ Len(trace) < MaxCalls
    /\ timer' = tm.timer
    /\ heap' = tm.heap
    /\ trace' = Append(trace, entry)
    /\ UNCHANGED <<appVars, call, clock, snap>>

InitTimer ==
    /\ AppIdle
    /\ call = NoCall
    /\ clock = 0
    /\ timer = newDetailedTimer(0).timer
    /\ heap = newDetailedTimer(0).heap
    /\ snap = 0
    /\ trace = <<>>

Tick ==
    /\ clock < MaxClock
    /\ clock' = clock + 1
    /\ UNCHANGED <<appVars, call, heap, timer, snap, trace>>

StartStep == Called(startStep(Tm, clock), [op |-> "startStep"])

EndStep ==
    \E stepName \in EndedSteps :
        Called(endStep(Tm, clock, stepName), [op |-> "endStep", arg |-> stepName])

RecordStorage ==
    \E metrics \in StorageArgs :
        Called(recordStorage(Tm, metrics), [op |-> "recordStorage", arg |-> metrics])

IncrementWriteOps ==
    \E count \in OpCounts :
        Called(incrementWriteOps(Tm, count), [op |-> "incrementWriteOps", arg |-> count])

IncrementReadOps ==
    \E count \in OpCounts :
        Called(incrementReadOps(Tm, count), [op |-> "incrementReadOps", arg |-> count])

RecordIntermediateRows ==
    \E count \in OpCounts :
        Called(recordIntermediateRows(Tm, count),
               [op |-> "recordIntermediateRows", arg |-> count])

RecordMemoryUsage ==
    \E arrayLength \in ArrayLengths :
        Called(recordMemoryUsage(Tm, arrayLength, DefaultBytesPerRow),
               [op |-> "recordMemoryUsage", arg |-> arrayLength * DefaultBytesPerRow])

RecordProcessMemory ==
    \E rss \in RssSizes :
        Called(recordProcessMemory(Tm, rss), [op |-> "recordProcessMemory", arg |-> rss])

GetTimings ==
    /\ call = NoCall
    /\ call' = [op |-> "getTimings", result |-> getTimings(Tm, clock)]
    /\ UNCHANGED <<appVars, clock, heap, timer, snap, trace>>

GetStorageMetrics ==
    /\ snap = 0
    /\ Len(trace) < MaxCalls
    /\ timer' = getStorageMetrics(Tm).tm.timer
    /\ heap' = getStorageMetrics(Tm).tm.heap
    /\ snap' = getStorageMetrics(Tm).result
    /\ trace' = Append(trace, [op |-> "getStorageMetrics"])
    /\ UNCHANGED <<appVars, call, clock>>

\* the caller assigns to a field of the object it got
MutateSnapshot ==
    /\ snap # 0
    /\ Len(trace) < MaxCalls
    /\ \E f \in MutatedFields : heap' = [heap EXCEPT ![snap][f] = MutatedValue]
    /\ trace' = Append(trace, [op |-> "mutateSnapshot"])
    /\ UNCHANGED <<appVars, call, clock, timer, snap>>

NextTimer ==
    \/ Tick
    \/ StartStep
    \/ EndStep
    \/ RecordStorage
    \/ IncrementWriteOps
    \/ IncrementReadOps
    \/ RecordIntermediateRows
    \/ RecordMemoryUsage
    \/ RecordProcessMemory
    \/ GetTimings
    \/ GetStorageMetrics
    \/ MutateSnapshot

SpecTimer == InitTimer /\ [][NextTimer]_vars

-----------------------------------------------------------------------------
(* Claims on the DetailedTimer *)

\* the object this.storage refers to
TimerStorage == heap[timer.storage]

\* a call was made in the step, and it is the last of trace'
CallMade == Len(trace') = Len(trace) + 1

LastCall == trace'[Len(trace')]

\* the calls a run makes on its timer: the counting and memory operations, and
\* recordStorage with rawDataRows or resultDataRows
RunCall(entry) ==
    \/ entry.op \in {"incrementReadOps", "incrementWriteOps", "recordIntermediateRows",
                     "recordMemoryUsage", "recordProcessMemory"}
    \/ /\ entry.op = "recordStorage"
       /\ DOMAIN entry.arg \subseteq {"rawDataRows", "resultDataRows"}

Counters == {"dbReadOps", "dbWriteOps", "intermediateRows", "peakMemoryMB"}

CountersGrow ==
    \A c \in Counters : heap'[timer'.storage][c] >= heap[timer.storage][c]

\* C15: after each operation a run makes on its timer (incrementReadOps,
\* incrementWriteOps, recordIntermediateRows, recordMemoryUsage,
\* recordProcessMemory, recordStorage) each of dbReadOps, dbWriteOps,
\* intermediateRows and peakMemoryMB is at least what it was before.
C15_CountersNonDecreasing ==
    [][(CallMade /\ RunCall(LastCall)) => CountersGrow]_vars

C15_Witness ==
    /\ Len(trace) = 3
    /\ trace[3].op = "recordStorage"
    /\ "rawDataRows" \in DOMAIN trace[3].arg
    /\ TimerStorage.rawDataRows = 2
    /\ TimerStorage.dbWriteOps > 0
    /\ TimerStorage.peakMemoryMB > 0

\* a counter falls under a recordStorage call that names it
C15_AnyRecordStorage ==
    [][CallMade => CountersGrow]_vars

\* call k of the trace is an endStep that a startStep precedes with no endStep between
StepStarted(calls, k) ==
    \E j \in 1..(k - 1) :
        /\ calls[j].op = "startStep"
        /\ \A i \in (j + 1)..(k - 1) : calls[i].op # "endStep"

\* C16: an endStep(name) stores a time under name only when a startStep
\* precedes it with no other endStep in between; an endStep without a matching
\* startStep leaves the stored times as they are.
C16_EndStepNeedsStartStep ==
    [][(/\ CallMade
        /\ LastCall.op = "endStep"
        /\ ~StepStarted(trace', Len(trace'))) => timer'.stepTimes = timer.stepTimes]_vars

\* an endStep that follows its startStep stores the time elapsed since
C16_MatchedEndStepStoresElapsed ==
    [][(/\ CallMade
        /\ LastCall.op = "endStep"
        /\ Len(trace) > 0
        /\ trace[Len(trace)].op = "startStep")
            => /\ LastCall.arg \in DOMAIN timer'.stepTimes
               /\ timer'.stepTimes[LastCall.arg] = clock - timer.currentStepStart]_vars

MemoryCalls ==
    {k \in 1..Len(trace) : trace[k].op \in {"recordMemoryUsage", "recordProcessMemory"}}

\* bytes in MB, rounded to 2 decimals, in hundredths
RoundedMB(bytes) == (200 * bytes + 1048576) \div 2097152

LargestRecorded ==
    IF MemoryCalls = {} THEN 0 ELSE Max({RoundedMB(trace[k].arg) : k \in MemoryCalls})

PeakOverwritten ==
    \E k \in 1..Len(trace) :
        trace[k].op = "recordStorage" /\ "peakMemoryMB" \in DOMAIN trace[k].arg

\* C17: after any calls of recordMemoryUsage and recordProcessMemory (and no
\* recordStorage that names peakMemoryMB), peakMemoryMB is the largest of the
\* values those calls recorded, each in MB rounded to 2 decimals, and 0 when
\* there was no such call.
C17_PeakIsRunningMaximum ==
    (timer # NoTimer /\ ~PeakOverwritten) => TimerStorage.peakMemoryMB = LargestRecorded

\* a smaller value was recorded after a larger one, and the larger one is the peak
C17_Witness ==
    /\ ~PeakOverwritten
    /\ \E j \in MemoryCalls : \E k \in MemoryCalls :
          /\ j < k
          /\ RoundedMB(trace[j].arg) > RoundedMB(trace[k].arg)
          /\ RoundedMB(trace[k].arg) > 0
          /\ TimerStorage.peakMemoryMB = RoundedMB(trace[j].arg)

\* C18: the object getStorageMetrics() returned stays as it was under every
\* later operation on the timer, and an assignment to one of its fields leaves
\* the timer's fields and counters as they were.
C18_SnapshotImmutability ==
    [][/\ (CallMade /\ snap # 0 /\ snap' = snap /\ LastCall.op # "mutateSnapshot")
            => heap'[snap] = heap[snap]
       /\ (CallMade /\ LastCall.op = "mutateSnapshot")
            => (timer' = timer /\ heap'[timer.storage] = heap[timer.storage])]_vars

\* the snapshot was taken, the timer counted a write, and the caller assigned
\* to the snapshot: the two objects differ in both fields
C18_Witness ==
    /\ Len(trace) = 3
    /\ trace[1].op = "getStorageMetrics"
    /\ trace[2].op = "incrementReadOps"
    /\ trace[3].op = "mutateSnapshot"
    /\ snap # timer.storage
    /\ TimerStorage.dbReadOps = trace[2].arg
    /\ heap[snap].dbReadOps = MutatedValue

-----------------------------------------------------------------------------
(* Calls of joinByJisCode *)

\* the longest array handed to joinByJisCode
MaxJoinLen == 3

\* a processed row of a municipality, as the callers hand it to joinByJisCode
JoinRow(jisCode, mark) ==
    [jisCode     |-> jisCode,
     prefCode    |-> "28",
     prefName    |-> "Hyogo",
     cityName    |-> jisCode,
     turnout     |-> 1000 * mark,
     partyShares |-> [LDP |-> 1000 * mark]]

LeftRows == {JoinRow("28100", 1), JoinRow("28100", 2), JoinRow("28201", 1), JoinRow("28202", 1)}

RightRows ==
    {JoinRow("28100", 3), JoinRow("28100", 4), JoinRow("28201", 3), JoinRow("28201", 4),
     JoinRow("28203", 3)}

SeqsUpTo(S, n) == UNION {[1..k -> S] : k \in 0..n}

InitJoin ==
    /\ AppIdle
    /\ TimerIdle
    /\ \E left \in SeqsUpTo(LeftRows, MaxJoinLen) : \E right \in SeqsUpTo(RightRows, MaxJoinLen) :
          call = [op |-> "pending", left |-> left, right |-> right]

\* joinByJisCode(base, party, merger) of pattern 3
CallJoinBaseAndParty ==
    /\ call.op = "pending"
    /\ call' = [op |-> "joinBaseAndParty", left |-> call.left, right |-> call.right,
                result |-> joinByJisCode(call.left, call.right, "mergeBaseAndParty")]
    /\ UNCHANGED <<appVars, clock, heap, timer, snap, trace>>

\* joinByJisCode(rows13, rows23, merger) of patterns 1 and 3
CallJoinRounds ==
    /\ call.op = "pending"
    /\ call' = [op |-> "joinRounds", left |-> call.left, right |-> call.right,
                result |-> joinByJisCode(call.left, call.right, "mergeRounds")]
    /\ UNCHANGED <<appVars, clock, heap, timer, snap, trace>>

NextJoin == CallJoinBaseAndParty \/ CallJoinRounds

SpecJoin == InitJoin /\ [][NextJoin]_vars

Joined == call.op \in {"joinBaseAndParty", "joinRounds"}

\* the key and the left row's value of a merged element
MergedKey(m) == IF call.op = "joinRounds" THEN m.jis_code ELSE m.jisCode

MergedLeft(m) == IF call.op = "joinRounds" THEN m.turnout_13 ELSE m.turnout

\* what the merged element took from the right row
MergedRight(m) == IF call.op = "joinRounds" THEN m.turnout_23 ELSE m.partyShares.LDP

OccursInRight(key) == \E j \in 1..Len(call.right) : call.right[j].jisCode = key

\* the positions of left whose key occurs in right
MatchingLeft == {i \in 1..Len(call.left) : OccursInRight(call.left[i].jisCode)}

\* the n-th matching position of left
NthMatching(n) ==
    CHOOSE i \in MatchingLeft : Cardinality({j \in MatchingLeft : j < i}) = n - 1

\* C19: joinByJisCode is an order-preserving inner join: its result has one
\* merged element for each left element whose key occurs in right, in left's
\* order, so the result's keys are the subsequence of left's keys that occur
\* in right.
C19_OrderPreservingInnerJoin ==
    Joined =>
        /\ Len(call.result) = Cardinality(MatchingLeft)
        /\ \A n \in 1..Len(call.result) :
              /\ MergedKey(call.result[n]) = call.left[NthMatching(n)].jisCode
              /\ MergedLeft(call.result[n]) = call.left[NthMatching(n)].turnout

\* a left row without a match stands between two matching rows of different keys
C19_Witness ==
    /\ Joined
    /\ Len(call.left) = 3
    /\ Len(call.result) = 2
    /\ ~OccursInRight(call.left[2].jisCode)
    /\ MergedKey(call.result[1]) # MergedKey(call.result[2])
    /\ call.right[1].jisCode = call.left[3].jisCode

\* C20: when several right elements have the same key, every left element of
\* that key is merged with the last of them.
C20_LastRightWins ==
    Joined =>
        \A n \in 1..Len(call.result) :
            \A j \in 1..Len(call.right) :
                (/\ call.right[j].jisCode = MergedKey(call.result[n])
                 /\ \A k \in (j + 1)..Len(call.right) :
                       call.right[k].jisCode # call.right[j].jisCode)
                    => MergedRight(call.result[n]) = call.right[j].turnout

\* two left rows of a key, and two right rows of that key that differ
C20_Witness ==
    /\ Joined
    /\ Len(call.result) >= 2
    /\ MergedKey(call.result[1]) = MergedKey(call.result[2])
    /\ \E j \in 1..Len(call.right) : \E k \in 1..Len(call.right) :
          /\ j < k
          /\ call.right[j].jisCode = MergedKey(call.result[1])
          /\ call.right[k].jisCode = MergedKey(call.result[1])
          /\ call.right[j] # call.right[k]

-----------------------------------------------------------------------------
(* Claims C21 to C30 *)

(* Calls of groupBy *)

\* the longest array handed to groupBy
MaxGroupLen == 3

\* rows of three municipalities, two different rows for each
GroupRows == {JoinRow(k, m) : k \in {"28100", "28201", "28202"}, m \in {1, 2}}

InitGroup ==
    /\ AppIdle
    /\ TimerIdle
    /\ \E array \in SeqsUpTo(GroupRows, MaxGroupLen) :
          call = [op |-> "pending", array |-> array]

\* groupBy(computed, (row) => row.jisCode)
CallGroupBy ==
    /\ call.op = "pending"
    /\ call' = [op |-> "groupBy", array |-> call.array,
                result |-> groupBy(call.array, "jisCode")]
    /\ UNCHANGED <<appVars, clock, heap, timer, snap, trace>>

NextGroup == CallGroupBy

SpecGroup == InitGroup /\ [][NextGroup]_vars

Grouped == call.op = "groupBy"

\* the first position of the array that holds the key
FirstSeen(key) == Min({i \in 1..Len(call.array) : call.array[i].jisCode = key})

\* C21: groupBy partitions its input and preserves order: the groups are those
\* of the keys of the input, one group per key, in the order in which the keys
\* first appear, and the items of a group are the input items of its key in
\* input order, so every input item is in exactly one group.
C21_GroupByPartitionsInOrder ==
    Grouped =>
        LET groups == call.result
        IN  /\ {groups[g].key : g \in 1..Len(groups)}
                 = {call.array[i].jisCode : i \in 1..Len(call.array)}
            /\ \A g \in 1..Len(groups) : \A h \in 1..Len(groups) :
                  g < h => /\ groups[g].key # groups[h].key
                           /\ FirstSeen(groups[g].key) < FirstSeen(groups[h].key)
            /\ \A g \in 1..Len(groups) :
                  groups[g].items
                      = SelectSeq(call.array, LAMBDA item : item.jisCode = groups[g].key)
            /\ SumSeq([g \in 1..Len(groups) |-> Len(groups[g].items)]) = Len(call.array)

\* two different rows of a key with a row of another key between them
C21_Witness ==
    /\ Grouped
    /\ Len(call.array) = 3
    /\ call.array[1].jisCode = call.array[3].jisCode
    /\ call.array[1] # call.array[3]
    /\ call.array[2].jisCode # call.array[1].jisCode
    /\ Len(call.result) = 2
    /\ call.result[1].items = <<call.array[1], call.array[3]>>

-----------------------------------------------------------------------------
(* app/layout.tsx and components/PatternButton.tsx: the page with its three buttons *)

\* most executions started from the page
MaxExecutions == 2

\* what the network makes of POST /api/run/<pattern>: a response whose JSON has
\* success true, one whose JSON has success false, a response whose body is not
\* JSON, or a rejected fetch
Outcomes == {"success", "errorResponse", "notJson", "networkFailure"}

\* <button disabled={disabled || isExecuting}> with disabled={isExecuting} of Home
buttonDisabledOwnFlag(pg, p) == pg.buttons[p]

buttonDisabled(pg, p) == pg.isExecuting \/ pg.buttons[p]

\* React renders the page from its state
render(pg) == [pg EXCEPT !.dom = [p \in Patterns |-> buttonDisabled(pg, p)]]

\* fetchHistory() up to its await fetch("/api/history")
fetchHistory(pg) == [pg EXCEPT !.historyFetches = @ + 1]

\* Home after mounting: useState initial values, the effect's fetchHistory()
newPage ==
    render(fetchHistory(
        [status         |-> "mounted",
         isExecuting    |-> FALSE,
         message        |-> "null",
         history        |-> "empty",
         historyFetches |-> 0,
         buttons        |-> [p \in Patterns |-> FALSE],
         dom            |-> [p \in Patterns |-> FALSE],
         executions     |-> <<>>]))

\* handleExecute up to its call of onExecute()
handleExecuteStart(pg, p) == [pg EXCEPT !.buttons[p] = TRUE]

\* executePattern up to its await fetch(`/api/run/${pattern}`)
executePatternStart(pg, p) ==
    [pg EXCEPT !.isExecuting = TRUE,
               !.message = "null",
               !.executions = Append(@, [pattern |-> p, pc |-> "fetch", outcome |-> "none"])]

\* the click handler of button p, and the render React makes before the next event
clickExecute(pg, p) == render(executePatternStart(handleExecuteStart(pg, p), p))

\* executePattern without its finally block
executePatternNoFinally(pg) == pg

\* finally { setIsExecuting(false) } of executePattern
executePatternFinally(pg) == [pg EXCEPT !.isExecuting = FALSE]

\* catch (error) { setMessage(...) } of executePattern, then its finally
executePatternCatch(pg, e) ==
    executePatternFinally([pg EXCEPT !.message = "executionError",
                                     !.executions[e].pc = "returned"])

\* executePattern after await fetch(...): res.json() is called, or the catch block runs
afterFetch(pg, e) ==
    IF pg.executions[e].outcome = "networkFailure"
    THEN executePatternCatch(pg, e)
    ELSE [pg EXCEPT !.executions[e].pc = "json"]

\* executePattern after await res.json()
afterJson(pg, e) ==
    LET outcome == pg.executions[e].outcome
    IN  IF outcome = "notJson" THEN executePatternCatch(pg, e)
        ELSE IF outcome = "success"
        THEN executePatternFinally(fetchHistory(
                 [pg EXCEPT !.message = "success", !.executions[e].pc = "returned"]))
        ELSE executePatternFinally(
                 [pg EXCEPT !.message = "error", !.executions[e].pc = "returned"])

\* handleExecute after await onExecute(): finally { setIsExecuting(false) };
\* the response the execution held is released
afterExecute(pg, e) ==
    [pg EXCEPT !.buttons[pg.executions[e].pattern] = FALSE,
               !.executions[e].pc = "done",
               !.executions[e].outcome = "none"]

Executions == 1..Len(page.executions)

PageStep(pg) ==
    /\ page' = pg
    /\ UNCHANGED <<csv13, csv23, out, tables, run, libVars>>

InitPage ==
    /\ csv13 = <<>>
    /\ csv23 = <<>>
    /\ out = [p \in Patterns |-> NotRun]
    /\ EmptyTables
    /\ run = [r \in Runs |-> Idle]
    /\ LibIdle
    /\ page = newPage

\* the user clicks the execute button of pattern p, which is not disabled
Click ==
    \E p \in Patterns :
        /\ ~page.dom[p]
        /\ Len(page.executions) < MaxExecutions
        /\ PageStep(clickExecute(page, p))

\* the network settles the request of execution e
Respond ==
    \E e \in Executions : \E outcome \in Outcomes :
        /\ page.executions[e].pc = "fetch"
        /\ PageStep([page EXCEPT !.executions[e].pc = "fetched",
                                 !.executions[e].outcome = outcome])

AfterFetch ==
    \E e \in Executions :
        /\ page.executions[e].pc = "fetched"
        /\ PageStep(afterFetch(page, e))

AfterJson ==
    \E e \in Executions :
        /\ page.executions[e].pc = "json"
        /\ PageStep(afterJson(page, e))

AfterExecute ==
    \E e \in Executions :
        /\ page.executions[e].pc = "returned"
        /\ PageStep(afterExecute(page, e))

\* a fetchHistory() ends: setHistory(data.runs) when data.success, nothing otherwise
HistoryArrives ==
    /\ page.historyFetches > 0
    /\ \E loaded \in BOOLEAN :
          PageStep([page EXCEPT !.historyFetches = @ - 1,
                                !.history = IF loaded THEN "loaded" ELSE @])

\* React renders after state was set outside an event handler
Render ==
    /\ page.dom # render(page).dom
    /\ PageStep(render(page))

NextPage ==
    \/ Click
    \/ Respond
    \/ AfterFetch
    \/ AfterJson
    \/ AfterExecute
    \/ HistoryArrives
    \/ Render

SpecPage == InitPage /\ [][NextPage]_vars

\* the event loop runs every continuation that is ready, and React renders
SpecPageFair ==
    /\ SpecPage
    /\ WF_vars(AfterFetch)
    /\ WF_vars(AfterJson)
    /\ WF_vars(AfterExecute)
    /\ WF_vars(Render)

\* the executions whose request is outstanding
InFlight == {e \in Executions : page.executions[e].pc \in {"fetch", "fetched", "json"}}

\* C22: while an execution started from the page is in flight, all three
\* execute buttons are disabled, so at most one execution request issued from
\* the page is outstanding at any time.
C22_UiExclusion ==
    /\ Cardinality(InFlight) <= 1
    /\ InFlight # {} => \A p \in Patterns : page.dom[p]

\* a second execution is in flight after the first one ended
C22_Witness ==
    /\ Len(page.executions) = 2
    /\ page.executions[1].pc = "done"
    /\ page.executions[2].pc = "fetch"
    /\ page.executions[2].pattern # page.executions[1].pattern

\* the request of execution e has resolved or rejected
Settled(e) == e \in Executions /\ page.executions[e].pc = "fetched"

\* handleExecute of execution e has ended and its button's flag is false
Released(e) ==
    /\ e \in Executions
    /\ page.executions[e].pc = "done"
    /\ page.buttons[page.executions[e].pattern] = FALSE

\* C30: once the request of an execution resolves or rejects, the page's
\* isExecuting flag and the clicked button's isExecuting flag are eventually
\* set back to false.
C30_BusyFlagReleased ==
    \A e \in 1..MaxExecutions :
        /\ Settled(e) ~> (page.isExecuting = FALSE)
        /\ Settled(e) ~> Released(e)

\* an execution that went through the catch block has ended, and every button
\* is enabled again
C30_Witness ==
    /\ Len(page.executions) = 1
    /\ page.message = "executionError"
    /\ page.executions[1].pc = "done"
    /\ page.isExecuting = FALSE
    /\ \A p \in Patterns : ~page.buttons[p] /\ ~page.dom[p]

-----------------------------------------------------------------------------
(* Claims on the instrumentation of the persistence-backed runs *)

\* the calls that open, close and read the stages, in the order of the code
StageProtocol ==
    <<"startStep", "csvLoadMs", "startStep", "dbWriteRawMs", "startStep", "dbReadRawMs",
      "startStep", "computeMs", "startStep", "dbWriteResultMs", "startStep",
      "dbReadResultMs", "startStep", "csvWriteMs", "getTimings", "getStorageMetrics">>

Running(r) == run[r].pc \notin {"idle", "threw"}

\* C23: in every persistence-backed run of patterns 1, 2 and 3 the startStep
\* and endStep calls alternate, starting with startStep, the stages are ended
\* once each in the order csvLoadMs, dbWriteRawMs, dbReadRawMs, computeMs,
\* dbWriteResultMs, dbReadResultMs, csvWriteMs, and getTimings and
\* getStorageMetrics are read after them: the calls made so far are a prefix
\* of that sequence, and all of it once the run saves its metrics.
C23_StageProtocol ==
    \A r \in Runs :
        Running(r) =>
            /\ Len(run[r].timerCalls) <= Len(StageProtocol)
            /\ run[r].timerCalls = SubSeq(StageProtocol, 1, Len(run[r].timerCalls))
            /\ run[r].pc \in {"saveMergeRun", "done"} => run[r].timerCalls = StageProtocol

\* a run of pattern 3 went through its stages and saved rows
C23_Witness ==
    /\ Done(1)
    /\ run[1].pattern = 3
    /\ run[1].rowCount > 0
    /\ run[1].timerCalls = StageProtocol

\* the arrays of step 4 of pattern 1
Processed13(r) == processElectionData(run[r].rawData13)

Processed23(r) == processElectionData(run[r].rawData23)

\* C24: at the end of a persistence-backed pattern 1 run, intermediateRows is
\* the number of rows of the two per-round transforms plus the number of rows
\* of the JOIN result.
C24_Pattern1IntermediateRows ==
    \A r \in Runs :
        (Done(r) /\ run[r].pattern = 1) =>
            run[r].storage.intermediateRows
                = Len(Processed13(r)) + Len(Processed23(r)) + Len(run[r].joined)

\* what the run counts: the rows of the two per-round transforms
C24_CountsTransformsOnly ==
    \A r \in Runs :
        (Done(r) /\ run[r].pattern = 1) =>
            run[r].storage.intermediateRows = Len(Processed13(r)) + Len(Processed23(r))

CostFields == {"intermediateRows", "dbWriteOps", "dbReadOps"}

\* the counters a run of the pattern ends with when it runs alone on the files
CostAlone(pattern) == runAlone(pattern, csv13, csv23).storage

C26_ResultTableUniqueness ==
    \A i \in 1..Len(electionResult) : \A j \in 1..Len(electionResult) :
        (/\ electionResult[i].municipalityId = electionResult[j].municipalityId
         /\ electionResult[i].electionNo = electionResult[j].electionNo
         /\ electionResult[i].party = electionResult[j].party) => i = j

\* what a result record says about its municipality, apart from the metadata
ResultValues(rec) ==
    [jisCode       |-> rec.jisCode,
     turnout13     |-> rec.turnout13,
     turnout23     |-> rec.turnout23,
     partyShares13 |-> rec.partyShares13,
     partyShares23 |-> rec.partyShares23]

LoaderKeys(data) == {data.rows[i].jisCode : i \in 1..Len(data.rows)}

\* C27: in a run executed in isolation the records loadResultsFromDB reads
\* back in stage 6 have the district keys, the turnouts and the category ->
\* share mappings of the records computed in stage 4, and rowCount is the
\* number of district keys present in both rounds.
C27_ResultRoundTrip ==
    Done(1) =>
        /\ {ResultValues(run[1].finalResults[i]) : i \in 1..Len(run[1].finalResults)}
              = {ResultValues(run[1].joined[i]) : i \in 1..Len(run[1].joined)}
        /\ Len(run[1].finalResults) = Len(run[1].joined)
        /\ run[1].rowCount
              = Cardinality(LoaderKeys(run[1].data13) \cap LoaderKeys(run[1].data23))

\* one municipality of three is in both rounds, and its rows were read back
C27_Witness ==
    /\ Done(1)
    /\ run[1].rowCount = 1
    /\ Cardinality(LoaderKeys(run[1].data13) \cup LoaderKeys(run[1].data23)) = 3
    /\ run[1].finalResults[1].turnout13 > 0
    /\ run[1].finalResults[1].turnout23 > run[1].finalResults[1].turnout13

-----------------------------------------------------------------------------
(* The same topology requested again after its first run returned *)

\* CSV lines of the files requested twice: a district with two parties whose
\* lines disagree on its metadata, and a second district
SeqRecords ==
    {CsvRecord("A", "X", 1, Kobe, <<3, 2, 3>>),
     CsvRecord("A", "Y", 2, Sakai, <<3, 1, 2>>),
     CsvRecord("B", "X", 2, Sakai, <<3, 1, 2>>)}

SeqBatches(records13, records23) ==
    \/ \E n13 \in 0..MaxDbRecs : \E n23 \in 0..(MaxDbRecs - n13) :
          /\ records13 \in [1..n13 -> SeqRecords]
          /\ records23 \in [1..n23 -> SeqRecords]
    \/ \E s \in Scenarios : records13 = s.csv13 /\ records23 = s.csv23

InitSeq ==
    /\ SeqBatches(csv13, csv23)
    /\ out = [p \in Patterns |-> NotRun]
    /\ EmptyTables
    /\ run = [r \in Runs |-> Idle]
    /\ LibIdle
    /\ page = NoPage

\* the second request of the same pattern on the same files
StartRerun ==
    /\ Done(1)
    /\ run[2].pc = "idle"
    /\ run' = [run EXCEPT ![2] = startRun(run[1].pattern, csv13, csv23)]
    /\ UNCHANGED <<csv13, csv23, out, tables, libVars, page>>

NextSeq ==
    \/ StepOf(1)
    \/ StartRerun
    \/ RawDelete(2)
    \/ RawUpsert(2)
    \/ RawCreate(2)
    \/ RawFind(2)
    \/ ResDelete(2)
    \/ ResFindUnique(2)
    \/ ResCreate(2)
    \/ ResFind(2)
    \/ SaveMergeRun(2)
    \/ run[2].pc # "idle" /\ Throw(2)

SpecSeq == InitSeq /\ [][NextSeq]_vars

\* the rows of a table with their multiplicities; the rows carry no generated
\* id and no timestamp
TableContents(tbl) ==
    [rec \in Range(tbl) |-> Cardinality({i \in 1..Len(tbl) : tbl[i] = rec})]

\* the tables after one run of the pattern from empty tables
AfterOneRun(pattern) == runToReturn(EmptyWorld(startRun(pattern, csv13, csv23)))

\* C28: running the same topology twice in sequence on the same inputs leaves
\* rawElectionData and electionResult with the contents one run leaves, and
\* the MergeRun table grows by one record per completed run.
C28_RerunIdempotence ==
    /\ Len(mergeRun) = Cardinality({r \in Runs : Done(r)})
    /\ (Done(1) /\ Done(2)) =>
          /\ TableContents(rawElectionData)
                = TableContents(AfterOneRun(run[1].pattern).rawElectionData)
          /\ TableContents(electionResult)
                = TableContents(AfterOneRun(run[1].pattern).electionResult)
          /\ \A i \in 1..Len(mergeRun) : mergeRun[i].pattern = run[1].pattern

\* both runs returned and left rows in the two tables
C28_Witness ==
    /\ Done(1)
    /\ Done(2)
    /\ Len(mergeRun) = 2
    /\ Len(rawElectionData) >= 2
    /\ Len(electionResult) >= 2

-----------------------------------------------------------------------------
(* detailedTracker.ts: getLatestRunsByPattern over the MergeRun table *)

\* bound of the number of completed runs
MaxRuns == 3

\* rowCount of the completed runs, to tell their records apart
RowCounts == {0, 1}

\* null
null == [status |-> "null"]

RunsOfPattern(tbl, pattern) == {i \in 1..Len(tbl) : tbl[i].pattern = pattern}

\* findFirst with orderBy finishedAt asc: a record no other of the pattern precedes
findFirstOldest(tbl, pattern) ==
    IF RunsOfPattern(tbl, pattern) = {} THEN {null}
    ELSE {tbl[i] : i \in {k \in RunsOfPattern(tbl, pattern) :
                             \A m \in RunsOfPattern(tbl, pattern) :
                                 tbl[m].finishedAt >= tbl[k].finishedAt}}

\* prisma.mergeRun.findFirst({where: {pattern}, orderBy: {finishedAt: "desc"}}):
\* null, or a record of the pattern that no other of the pattern follows; the
\* order among records of equal finishedAt is the database's
findFirst(tbl, pattern) ==
    IF RunsOfPattern(tbl, pattern) = {} THEN {null}
    ELSE {tbl[i] : i \in {k \in RunsOfPattern(tbl, pattern) :
                             \A m \in RunsOfPattern(tbl, pattern) :
                                 tbl[m].finishedAt <= tbl[k].finishedAt}}

CallReturned == call.op = "getLatestRunsByPattern" /\ call.pc = "returned"

NoCallUnderWay == call = NoCall \/ CallReturned

InitRuns == AppIdle /\ LibIdle

\* a run of the pattern returns: its last await is saveMergeRun, at time now
CompleteRun ==
    /\ NoCallUnderWay
    /\ Len(mergeRun) < MaxRuns
    /\ \E pattern \in DbPatterns : \E rowCount \in RowCounts : \E now \in Dates :
          mergeRun' = saveMergeRun(mergeRun, pattern,
                                   storageOf([tm |-> newDetailedTimer(0)]), rowCount, now)
    /\ call' = NoCall
    /\ UNCHANGED <<csv13, csv23, out, municipality, rawElectionData, electionResult, run,
                   clock, heap, timer, snap, trace, page>>

\* GET /api/timings: patterns.map starts the three callbacks, each up to its await
GetLatestRunsByPattern ==
    /\ NoCallUnderWay
    /\ call' = [op      |-> "getLatestRunsByPattern",
                pc      |-> "awaiting",
                pending |-> DbPatterns,
                latest  |-> [p \in DbPatterns |-> None],
                results |-> <<>>]
    /\ UNCHANGED <<appVars, clock, heap, timer, snap, trace>>

\* one findFirst resolves and its callback returns {pattern, run: latestRun}
FindFirstResolves ==
    /\ call.op = "getLatestRunsByPattern"
    /\ call.pc = "awaiting"
    /\ \E pattern \in call.pending : \E latestRun \in findFirst(mergeRun, pattern) :
          call' = [call EXCEPT !.pending = @ \ {pattern},
                               !.latest[pattern] =
                                   [pattern |-> pattern, run |-> latestRun]]
    /\ UNCHANGED <<appVars, clock, heap, timer, snap, trace>>

\* Promise.all resolves with the callbacks' values in the order of patterns
PromiseAllResolves ==
    /\ call.op = "getLatestRunsByPattern"
    /\ call.pc = "awaiting"
    /\ call.pending = {}
    /\ call' = [call EXCEPT !.pc = "returned",
                            !.results = <<call.latest[1], call.latest[2], call.latest[3]>>]
    /\ UNCHANGED <<appVars, clock, heap, timer, snap, trace>>

NextRuns ==
    \/ CompleteRun
    \/ GetLatestRunsByPattern
    \/ FindFirstResolves
    \/ PromiseAllResolves

SpecRuns == InitRuns /\ [][NextRuns]_vars

\* C29: after any sequence of completed runs getLatestRunsByPattern returns
\* three entries, for patterns 1, 2 and 3 in that order; the entry of pattern p
\* holds a MergeRun record of pattern p that no record of pattern p exceeds in
\* finishedAt, or null when the table has no record of pattern p.
C29_LatestRunPerPattern ==
    CallReturned =>
        /\ Len(call.results) = 3
        /\ \A p \in 1..3 :
              /\ call.results[p].pattern = p
              /\ IF RunsOfPattern(mergeRun, p) = {}
                 THEN call.results[p].run = null
                 ELSE /\ \E i \in RunsOfPattern(mergeRun, p) : mergeRun[i] = call.results[p].run
                      /\ \A i \in RunsOfPattern(mergeRun, p) :
                            mergeRun[i].finishedAt <= call.results[p].run.finishedAt

\* the later run of pattern 1 was saved first, pattern 2 ran once, pattern 3 never
C29_Witness ==
    /\ CallReturned
    /\ Len(mergeRun) = 3
    /\ mergeRun[1].pattern = 1 /\ mergeRun[1].finishedAt = 1
    /\ mergeRun[2].pattern = 1 /\ mergeRun[2].finishedAt = 0
    /\ mergeRun[3].pattern = 2
    /\ call.results[1].run = mergeRun[1]
    /\ call.results[2].run = mergeRun[3]
    /\ call.results[3].run = null

====
